---- MODULE Spec2Model ----
(***************************************************************************)
(* Morning Dashboard: configuration resolution (DEFAULT_CONFIG, loadConfig, *)
(* deepMerge, the --config merge of main) and the focus-time calculation    *)
(* (calculateFocusTime), modelled from src/unnamed/part_001.                *)
(***************************************************************************)
EXTENDS Integers, Sequences, FiniteSets, TLC

VARIABLES
  pc,        \* position of the run: which step of which function comes next
  base,      \* deepMerge: the target argument
  override,  \* deepMerge: the source argument
  merged,    \* deepMerge: the returned object
  args,      \* main: the options parseArgs returned
  files,     \* the file system: what lies at each configuration location
  idx,       \* loadConfig: index into configPaths of the path examined next
  config,    \* main: the `config` variable
  warnings,  \* locations for which console.error printed a parse warning
  events,    \* calculateFocusTime: the `events` argument
  now,       \* calculateFocusTime: `new Date()`, ms since local midnight
  todayEvents, \* calculateFocusTime: the filtered, sorted events still to walk
  currentTime, \* calculateFocusTime: the cursor
  focusBlocks, \* calculateFocusTime: the blocks pushed so far
  returned,    \* calculateFocusTime: the returned list
  argv,        \* parseArgs: the command-line words not yet read
  services,    \* what the weather service and GitHub hold when asked
  data,        \* main: what fetchAllData returned
  rendered,    \* main: what has been written to the terminal, in order
  defaults,    \* the object DEFAULT_CONFIG refers to, as it is now
  shared,      \* the sections of config that are DEFAULT_CONFIG's own objects
  rawEvents,   \* fetchCalendarEvents: what the calendar source answered
  version,     \* which fetchTasks runs: "1.0" (dashboard.js) or "2.1"
  sources,     \* fetchTasks: what the today/overdue/upcoming sources answered
  taskData,    \* fetchTasks: the returned tasks
  sorted,      \* renderTasks: the task list in display order
  rcFiles,     \* install.sh: the lines of each shell rc file, or NoFile
  configFile,  \* install.sh: what ~/.config/morning-dashboard/config.json holds
  rcIndex,     \* install.sh: which rc file add_alias is tried on next
  runs,        \* install.sh: how many runs have finished
  history,     \* the rc files and the config file after each finished run
  token,       \* runSetupTodoist: what was typed at 'Paste your API token: '
  apiAnswer,   \* runSetupTodoist: what the Todoist projects request answers
  proxyEmails,   \* gog proxy: the words getEmails put into `gog gmail search`
  proxyCalendar, \* gog proxy: the word getCalendar put into `gog calendar events`
  dashEmails,    \* dashboard: the words fetchEmails put into `gog gmail search`
  dashCalendar   \* dashboard: the word fetchCalendarEvents put into its command

mergeVars == <<base, override, merged>>
configVars == <<args, files, idx, config, warnings>>
focusVars == <<events, now, todayEvents, currentTime, focusBlocks, returned>>
renderVars == <<argv, services, data, rendered, defaults, shared>>
fetchVars == <<rawEvents, version, sources, taskData, sorted>>
installVars == <<rcFiles, configFile, rcIndex, runs, history>>
setupVars == <<token, apiAnswer>>
proxyVars == <<proxyEmails, proxyCalendar, dashEmails, dashCalendar>>

vars == <<pc, mergeVars, configVars, focusVars, renderVars, fetchVars,
          installVars, setupVars, proxyVars>>

(***************************************************************************)
(* JavaScript values.  Every value is a record of the same shape, so that  *)
(* any two values can be compared: k is the kind, s the text of a number   *)
(* or boolean, c the characters of a string, a the elements of an array,   *)
(* o the own properties of an object (a function from property names).     *)
(***************************************************************************)
Undefined == [k |-> "undefined", s |-> "", c |-> <<>>, a |-> <<>>, o |-> <<>>]
Null == [k |-> "null", s |-> "", c |-> <<>>, a |-> <<>>, o |-> <<>>]
Bool(b) == [k |-> "boolean", s |-> IF b THEN "true" ELSE "false",
            c |-> <<>>, a |-> <<>>, o |-> <<>>]
Num(n) == [k |-> "number", s |-> ToString(n), c |-> <<>>, a |-> <<>>, o |-> <<>>]
Str(chars) == [k |-> "string", s |-> "", c |-> chars, a |-> <<>>, o |-> <<>>]
Arr(elems) == [k |-> "array", s |-> "", c |-> <<>>, a |-> elems, o |-> <<>>]
Obj(props) == [k |-> "object", s |-> "", c |-> <<>>, a |-> <<>>, o |-> props]

EmptyObject == Obj(<<>>)

\* The property names "0", "1", ... of a string or array of length n.
IndexKeys(n) == {ToString(i - 1) : i \in 1..n}

IndexOf(key, n) == CHOOSE i \in 1..n : ToString(i - 1) = key

\* JavaScript truthiness: `v && ...`, `v || ...`.
Truthy(v) ==
  CASE v.k \in {"undefined", "null"} -> FALSE
    [] v.k = "boolean" -> v.s = "true"
    [] v.k = "number" -> v.s # "0"
    [] v.k = "string" -> Len(v.c) > 0
    [] OTHER -> TRUE

\* Object.keys(v): own enumerable property names (v is not null/undefined).
ObjectKeys(v) ==
  CASE v.k = "object" -> DOMAIN v.o
    [] v.k = "array" -> IndexKeys(Len(v.a))
    [] v.k = "string" -> IndexKeys(Len(v.c))
    [] OTHER -> {}

\* v[key]: property access; undefined when there is no such property.
Get(v, key) ==
  CASE v.k = "object" -> IF key \in DOMAIN v.o THEN v.o[key] ELSE Undefined
    [] v.k = "array" ->
         IF key \in IndexKeys(Len(v.a)) THEN v.a[IndexOf(key, Len(v.a))]
         ELSE Undefined
    [] v.k = "string" ->
         IF key \in IndexKeys(Len(v.c)) THEN Str(<<v.c[IndexOf(key, Len(v.c))]>>)
         ELSE Undefined
    [] OTHER -> Undefined

\* { ...v }: the own enumerable properties of v copied into a fresh object.
Spread(v) == [key \in ObjectKeys(v) |-> Get(v, key)]

\* source[key] && typeof source[key] === 'object' && !Array.isArray(source[key])
IsPlainObject(v) == Truthy(v) /\ v.k \in {"object", "array", "null"} /\ v.k # "array"

\* Object.keys(null) and Object.keys(undefined) throw a TypeError.
MergeThrows(source) == source.k \in {"null", "undefined"}

RECURSIVE deepMerge(_, _)

\* Mutant: arrays are concatenated instead of replaced.
deepMergeConcat(target, source) ==
  LET result == Spread(target)
      keys == ObjectKeys(source)
  IN Obj([key \in (DOMAIN result) \cup keys |->
       IF key \in keys
       THEN IF IsPlainObject(Get(source, key))
            THEN deepMerge(IF Truthy(Get(target, key)) THEN Get(target, key)
                           ELSE EmptyObject, Get(source, key))
            ELSE IF Get(source, key).k = "array" /\ Get(target, key).k = "array"
                 THEN Arr(Get(target, key).a \o Get(source, key).a)
                 ELSE Get(source, key)
       ELSE result[key]])

\* Mutant: a key the target already has keeps the target's value.
deepMergeLeft(target, source) ==
  LET result == Spread(target)
      keys == ObjectKeys(source)
  IN Obj([key \in (DOMAIN result) \cup keys |->
       IF key \in keys /\ key \notin DOMAIN result
       THEN Get(source, key)
       ELSE IF key \in keys /\ IsPlainObject(Get(source, key))
                 /\ IsPlainObject(result[key])
            THEN deepMerge(result[key], Get(source, key))
            ELSE result[key]])

\* Mutant: a nested object of the source replaces the target's (shallow merge).
deepMergeShallow(target, source) ==
  LET result == Spread(target)
      keys == ObjectKeys(source)
  IN Obj([key \in (DOMAIN result) \cup keys |->
       IF key \in keys THEN Get(source, key) ELSE result[key]])

deepMerge(target, source) ==
  LET result == Spread(target)
      keys == ObjectKeys(source)
  IN Obj([key \in (DOMAIN result) \cup keys |->
       IF key \in keys
       THEN IF IsPlainObject(Get(source, key))
            THEN deepMerge(IF Truthy(Get(target, key)) THEN Get(target, key)
                           ELSE EmptyObject, Get(source, key))
            ELSE Get(source, key)
       ELSE result[key]])

(***************************************************************************)
(* deepMerge as a pure function: the arguments are drawn from bounded sets *)
(* of configuration trees and the call is one step.                        *)
(***************************************************************************)
MaxNum == 2
MaxArrLen == 1

Numbers == {Num(n) : n \in 1..MaxNum}
Arrays == {Arr([i \in 1..n |-> Num(1)]) : n \in 0..MaxArrLen}
Leaves == {Null, Str(<<"x">>)} \cup Numbers \cup Arrays

TreeKeys == {"a", "b"}

ObjectsOver(keys, vals) == {Obj(f) : f \in UNION {[S -> vals] : S \in SUBSET keys}}

InnerTrees == ObjectsOver(TreeKeys, Leaves)

\* Nested mappings two levels deep; the second level hangs under key "a".
Trees == {t \in ObjectsOver(TreeKeys, Leaves \cup InnerTrees) : Get(t, "b").k # "object"}

\* The variables of the parts of the program a run does not enter.
MergeIdle == base = Undefined /\ override = Undefined /\ merged = Undefined

ConfigIdle ==
  /\ args = <<>> /\ files = <<>> /\ idx = 0 /\ config = Undefined /\ warnings = {}

FocusIdle ==
  /\ events = <<>> /\ now = 0 /\ todayEvents = <<>> /\ currentTime = 0
  /\ focusBlocks = <<>> /\ returned = <<>>

RenderIdle ==
  /\ argv = <<>> /\ data = [weather |-> FALSE, github |-> 0] /\ rendered = <<>>
  /\ services = [weather |-> FALSE, github |-> 0]
  /\ defaults = Undefined /\ shared = {}

FetchIdle ==
  /\ rawEvents = <<>> /\ version = "" /\ sources = <<>> /\ taskData = <<>>
  /\ sorted = <<>>

InstallIdle ==
  /\ rcFiles = <<>> /\ configFile = "" /\ rcIndex = 0 /\ runs = 0
  /\ history = <<>>

SetupIdle == token = <<>> /\ apiAnswer = ""

ProxyIdle ==
  /\ proxyEmails = <<>> /\ proxyCalendar = <<>>
  /\ dashEmails = <<>> /\ dashCalendar = <<>>

InitMerge ==
  /\ pc = "deepMerge"
  /\ base \in Trees
  /\ override \in Trees
  /\ merged = Undefined
  /\ ConfigIdle
  /\ FocusIdle
  /\ RenderIdle
  /\ FetchIdle
  /\ InstallIdle
  /\ SetupIdle
  /\ ProxyIdle

DeepMergeCall ==
  /\ pc = "deepMerge"
  /\ merged' = deepMerge(base, override)
  /\ pc' = "merged"
  /\ UNCHANGED <<base, override, configVars, focusVars, renderVars, fetchVars,
                 installVars,
                 setupVars, proxyVars>>

NextMerge == DeepMergeCall

SpecMerge == InitMerge /\ [][NextMerge]_vars

\* The merge of the design document (section 4.1), which the code is compared with:
\* a key recurses only when both values are nested mappings.
IsMapping(v) == v.k = "object"

RECURSIVE referenceMerge(_, _)
referenceMerge(b, ov) ==
  Obj([key \in (DOMAIN b.o) \cup (DOMAIN ov.o) |->
    IF key \in DOMAIN ov.o
    THEN IF IsMapping(ov.o[key]) /\ key \in DOMAIN b.o /\ IsMapping(b.o[key])
         THEN referenceMerge(b.o[key], ov.o[key])
         ELSE ov.o[key]
    ELSE b.o[key]])

\* C1: for every base and override tree, deepMerge(base, override) equals the
\* reference merge: a key recurses only when the override value AND the base
\* value are nested mappings, otherwise the override value replaces wholesale.
C1_EqualsReferenceMerge ==
  pc = "merged" => merged = referenceMerge(base, override)

\* C7: deepMerge is idempotent: deepMerge(x, x) is structurally equal to x.
C7_Idempotent ==
  (pc = "merged" /\ base = override) => merged = base

C7_Witness ==
  /\ pc = "merged"
  /\ base = override
  /\ IsMapping(Get(base, "a"))
  /\ Get(Get(base, "a"), "b").k = "array"
  /\ Len(Get(Get(base, "a"), "b").a) > 0
  /\ merged = base

\* A leaf: a value that is present and is not a nested mapping.
IsLeaf(v) == v.k \notin {"undefined", "object"}

Present(v) == v.k # "undefined"

\* C8: deepMerge is right-biased: at every leaf key path of the override that
\* the base has too, the result holds the override's value; an array of the
\* override replaces the base value whole.
C8_RightBias ==
  pc = "merged" =>
    /\ \A k1 \in TreeKeys :
         (IsLeaf(Get(override, k1)) /\ Present(Get(base, k1)))
           => Get(merged, k1) = Get(override, k1)
    /\ \A k1 \in TreeKeys, k2 \in TreeKeys :
         (/\ IsLeaf(Get(Get(override, k1), k2))
          /\ Present(Get(Get(base, k1), k2)))
           => Get(Get(merged, k1), k2) = Get(Get(override, k1), k2)

C8_Witness ==
  /\ pc = "merged"
  /\ Get(Get(override, "a"), "b").k = "array"
  /\ Get(Get(base, "a"), "b").k = "array"
  /\ Get(Get(override, "a"), "b") # Get(Get(base, "a"), "b")
  /\ Get(override, "b").k = "number"
  /\ Get(base, "b").k = "number"
  /\ Get(override, "b") # Get(base, "b")
  /\ Get(Get(merged, "a"), "b") = Get(Get(override, "a"), "b")
  /\ Get(merged, "b") = Get(override, "b")

\* C9: deepMerge never drops a base-only key: a key the base has and the
\* override has not, at the top level or inside a mapping that both have,
\* is in the result with the base's value.
C9_BaseOnlyKeysKept ==
  pc = "merged" =>
    /\ \A k1 \in TreeKeys :
         (Present(Get(base, k1)) /\ ~Present(Get(override, k1)))
           => Get(merged, k1) = Get(base, k1)
    /\ \A k1 \in TreeKeys, k2 \in TreeKeys :
         (/\ IsMapping(Get(base, k1)) /\ IsMapping(Get(override, k1))
          /\ Present(Get(Get(base, k1), k2))
          /\ ~Present(Get(Get(override, k1), k2)))
           => Get(Get(merged, k1), k2) = Get(Get(base, k1), k2)

C9_Witness ==
  /\ pc = "merged"
  /\ IsMapping(Get(base, "a")) /\ IsMapping(Get(override, "a"))
  /\ Present(Get(Get(base, "a"), "b")) /\ ~Present(Get(Get(override, "a"), "b"))
  /\ Present(Get(Get(override, "a"), "a"))
  /\ Present(Get(base, "b")) /\ ~Present(Get(override, "b"))
  /\ Get(Get(merged, "a"), "b") = Get(Get(base, "a"), "b")
  /\ Get(Get(merged, "a"), "a") = Get(Get(override, "a"), "a")
  /\ Get(merged, "b") = Get(base, "b")

(***************************************************************************)
(* Configuration resolution: DEFAULT_CONFIG, loadConfig and the --config   *)
(* merge of main.                                                          *)
(***************************************************************************)
DEFAULT_CONFIG ==
  Obj([google |-> Obj([enabled |-> Bool(TRUE), account |-> Str(<<>>)]),
       gmail |-> Obj([enabled |-> Bool(TRUE), maxEmails |-> Num(10),
                      query |-> Str(<<"i", "s", ":", "u", "n", "r", "e", "a", "d", " ", "n", "e", "w", "e", "r", "_", "t", "h", "a", "n", ":", "3", "d">>)]),
       calendar |-> Obj([enabled |-> Bool(TRUE), id |-> Str(<<"p", "r", "i", "m", "a", "r", "y">>),
                         showFocusTime |-> Bool(TRUE), lookaheadDays |-> Num(1)]),
       todoist |-> Obj([enabled |-> Bool(TRUE), apiToken |-> Str(<<>>),
                        showUpcoming |-> Bool(TRUE), upcomingDays |-> Num(7)]),
       weather |-> Obj([enabled |-> Bool(TRUE), location |-> Str(<<>>),
                        units |-> Str(<<"i", "m", "p", "e", "r", "i", "a", "l">>)]),
       quote |-> Obj([enabled |-> Bool(TRUE)]),
       github |-> Obj([enabled |-> Bool(TRUE), maxNotifications |-> Num(5)]),
       system |-> Obj([enabled |-> Bool(TRUE), showBattery |-> Bool(TRUE)]),
       gui |-> Obj([port |-> Num(3141), autoRefresh |-> Bool(TRUE),
                    refreshInterval |-> Num(300), theme |-> Str(<<"a", "u", "t", "o">>)]),
       display |-> Obj([width |-> Num(80), maxTasksShown |-> Num(12),
                        maxEmailsShown |-> Num(6), maxEventsShown |-> Num(8),
                        compact |-> Bool(FALSE), color |-> Bool(TRUE),
                        showGreeting |-> Bool(TRUE), showSummary |-> Bool(TRUE)])])

\* The locations loadConfig tries, in its order: CONFIG_PATH
\* (~/.config/morning-dashboard/config.json), ~/.morning-dashboard.json and
\* config.json in the dashboard directory.
configPathsReversed == <<"DIR_JSON", "HOME_JSON", "CONFIG_PATH">>

configPaths == <<"CONFIG_PATH", "HOME_JSON", "DIR_JSON">>

\* The file named by --config.
CustomPath == "CUSTOM"

Locations == {"CONFIG_PATH", "HOME_JSON", "DIR_JSON", "CUSTOM"}

\* What lies at a location: no file, a file JSON.parse rejects, or a file
\* that parses to doc.
Missing == [exists |-> FALSE, parses |-> FALSE, doc |-> Undefined]
Malformed == [exists |-> TRUE, parses |-> FALSE, doc |-> Undefined]
Parsed(doc) == [exists |-> TRUE, parses |-> TRUE, doc |-> doc]

\* The documents a configuration file may hold: JSON that is no object, the
\* empty object, a calendar section (a scalar, or a mapping setting one
\* key), or a key the defaults do not have.
CalendarValues ==
  {Null, Obj([id |-> Str(<<"x">>)]), Obj([id |-> Obj([extra |-> Num(1)])])}
    \cup {Obj([lookaheadDays |-> n]) : n \in Numbers}

ConfigDocs ==
  {Null, Num(1), Str(<<"x">>), EmptyObject}
    \cup {Obj([calendar |-> v]) : v \in CalendarValues}
    \cup {Obj([extra |-> n]) : n \in Numbers}

FileStates == {Missing, Malformed} \cup {Parsed(d) : d \in ConfigDocs}

InitConfig ==
  /\ pc = "loadConfig"
  /\ args \in [configPath : {"null", CustomPath}]
  /\ files \in [Locations -> FileStates]
  /\ args.configPath = "null" => files[CustomPath] = Missing
  /\ idx = 1
  /\ config = Undefined
  /\ warnings = {}
  /\ MergeIdle
  /\ FocusIdle
  /\ RenderIdle
  /\ FetchIdle
  /\ InstallIdle
  /\ SetupIdle
  /\ ProxyIdle

\* loadConfig: fs.existsSync(configPath) is false; the loop goes on.
LoadConfigAbsentWarns ==
  /\ pc = "loadConfig"
  /\ idx <= Len(configPaths)
  /\ ~files[configPaths[idx]].exists
  /\ warnings' = warnings \cup {configPaths[idx]}
  /\ idx' = idx + 1
  /\ UNCHANGED <<pc, args, files, config, mergeVars, focusVars, renderVars,
                 fetchVars, installVars,
                 setupVars, proxyVars>>

LoadConfigAbsent ==
  /\ pc = "loadConfig"
  /\ idx <= Len(configPaths)
  /\ ~files[configPaths[idx]].exists
  /\ idx' = idx + 1
  /\ UNCHANGED <<pc, args, files, config, warnings, mergeVars, focusVars,
                 renderVars, fetchVars, installVars,
                 setupVars, proxyVars>>

\* loadConfig: the file parses and deepMerge returns; loadConfig returns the merge.
LoadConfigMerge ==
  /\ pc = "loadConfig"
  /\ idx <= Len(configPaths)
  /\ files[configPaths[idx]].exists
  /\ files[configPaths[idx]].parses
  /\ ~MergeThrows(files[configPaths[idx]].doc)
  /\ config' = deepMerge(DEFAULT_CONFIG, files[configPaths[idx]].doc)
  /\ pc' = "main"
  /\ UNCHANGED <<args, files, idx, warnings, mergeVars, focusVars, renderVars,
                 fetchVars, installVars,
                 setupVars, proxyVars>>

\* Mutant: the catch block rethrows, the program ends.
LoadConfigWarnAborts ==
  /\ pc = "loadConfig"
  /\ idx <= Len(configPaths)
  /\ files[configPaths[idx]].exists
  /\ \/ ~files[configPaths[idx]].parses
     \/ MergeThrows(files[configPaths[idx]].doc)
  /\ warnings' = warnings \cup {configPaths[idx]}
  /\ pc' = "aborted"
  /\ UNCHANGED <<args, files, idx, config, mergeVars, focusVars, renderVars,
                 fetchVars, installVars,
                 setupVars, proxyVars>>

\* loadConfig: JSON.parse or deepMerge throws inside the try; the catch prints
\* the warning and the loop goes on.
LoadConfigWarn ==
  /\ pc = "loadConfig"
  /\ idx <= Len(configPaths)
  /\ files[configPaths[idx]].exists
  /\ \/ ~files[configPaths[idx]].parses
     \/ MergeThrows(files[configPaths[idx]].doc)
  /\ warnings' = warnings \cup {configPaths[idx]}
  /\ idx' = idx + 1
  /\ UNCHANGED <<pc, args, files, config, mergeVars, focusVars, renderVars,
                 fetchVars, installVars,
                 setupVars, proxyVars>>

\* loadConfig: no location gave a configuration; return DEFAULT_CONFIG.
LoadConfigDefault ==
  /\ pc = "loadConfig"
  /\ idx > Len(configPaths)
  /\ config' = DEFAULT_CONFIG
  /\ pc' = "main"
  /\ UNCHANGED <<args, files, idx, warnings, mergeVars, focusVars, renderVars,
                 fetchVars, installVars,
                 setupVars, proxyVars>>

\* parseJSON(str): the parsed value, or null when JSON.parse throws.
parseJSON(file) == IF file.parses THEN file.doc ELSE Null

\* main: args.configPath && fs.existsSync(args.configPath)
CustomConfigRead ==
  args.configPath # "null" /\ files[args.configPath].exists

\* Mutant: the accumulated configuration is merged onto the --config document.
MainCustomMergeSwapped ==
  /\ pc = "main"
  /\ CustomConfigRead
  /\ Truthy(parseJSON(files[args.configPath]))
  /\ config' = deepMerge(parseJSON(files[args.configPath]), config)
  /\ pc' = "resolved"
  /\ UNCHANGED <<args, files, idx, warnings, mergeVars, focusVars, renderVars,
                 fetchVars, installVars,
                 setupVars, proxyVars>>

\* main: the --config file is read, parses to a truthy value and is merged
\* onto the configuration loadConfig returned.
MainCustomMerge ==
  /\ pc = "main"
  /\ CustomConfigRead
  /\ Truthy(parseJSON(files[args.configPath]))
  /\ config' = deepMerge(config, parseJSON(files[args.configPath]))
  /\ pc' = "resolved"
  /\ UNCHANGED <<args, files, idx, warnings, mergeVars, focusVars, renderVars,
                 fetchVars, installVars,
                 setupVars, proxyVars>>

\* main: no --config, no such file, or parseJSON gave null or a falsy value.
MainCustomSkip ==
  /\ pc = "main"
  /\ ~(CustomConfigRead /\ Truthy(parseJSON(files[args.configPath])))
  /\ pc' = "resolved"
  /\ UNCHANGED <<args, files, idx, config, warnings, mergeVars, focusVars,
                 renderVars, fetchVars, installVars,
                 setupVars, proxyVars>>

NextConfig ==
  \/ LoadConfigAbsent
  \/ LoadConfigMerge
  \/ LoadConfigWarn
  \/ LoadConfigDefault
  \/ MainCustomMerge
  \/ MainCustomSkip

SpecConfig == InitConfig /\ [][NextConfig]_vars

(***************************************************************************)
(* Claims about configuration resolution.  The priority order of the       *)
(* sources is written out here, independently of configPaths.              *)
(***************************************************************************)
StandardOrder == <<"CONFIG_PATH", "HOME_JSON", "DIR_JSON">>

\* A standard file that loadConfig can load: it exists, parses, and the
\* merge does not throw on it.
LoadableIn(fs, loc) ==
  fs[loc].exists /\ fs[loc].parses /\ ~MergeThrows(fs[loc].doc)

\* The first loadable standard file, as a set of at most one index.
FirstLoadableIn(fs) ==
  {i \in 1..3 : /\ LoadableIn(fs, StandardOrder[i])
                /\ \A j \in 1..(i - 1) : ~LoadableIn(fs, StandardOrder[j])}

\* The --config document is merged: the option is given, the file exists,
\* parses and its value is truthy.
CustomAppliesIn(fs) ==
  /\ args.configPath = "CUSTOM"
  /\ fs["CUSTOM"].exists /\ fs["CUSTOM"].parses /\ Truthy(fs["CUSTOM"].doc)

StandardDocIn(fs) ==
  IF FirstLoadableIn(fs) = {} THEN Undefined
  ELSE fs[StandardOrder[CHOOSE i \in FirstLoadableIn(fs) : TRUE]].doc

CustomDocIn(fs) == IF CustomAppliesIn(fs) THEN fs["CUSTOM"].doc ELSE Undefined

\* Defaults, then the first loadable standard file, then the --config file.
ExpectedConfig(fs) ==
  LET afterFiles == IF FirstLoadableIn(fs) = {} THEN DEFAULT_CONFIG
                    ELSE deepMerge(DEFAULT_CONFIG, StandardDocIn(fs))
  IN IF CustomAppliesIn(fs) THEN deepMerge(afterFiles, CustomDocIn(fs))
     ELSE afterFiles

\* The documents that were merged, highest priority first, then the defaults.
MergedSources == <<CustomDocIn(files), StandardDocIn(files), DEFAULT_CONFIG>>

RECURSIVE At(_, _)
At(v, path) == IF path = <<>> THEN v ELSE At(Get(v, Head(path)), Tail(path))

DefaultSections == DOMAIN DEFAULT_CONFIG.o

\* C2 as stated: the effective configuration contains every key of
\* DEFAULT_CONFIG at every nesting level, whatever the override documents hold.
C2_EveryDefaultKeyPresent ==
  pc = "resolved" =>
    \A sec \in DefaultSections : \A key \in DOMAIN DEFAULT_CONFIG.o[sec].o :
      Present(At(config, <<sec, key>>))

\* A merged document replaces the section by a value that is no mapping.
SectionReplaced(sec) ==
  \E i \in 1..2 : /\ Present(Get(MergedSources[i], sec))
                  /\ ~IsMapping(Get(MergedSources[i], sec))

\* C2 amended: every top-level key of DEFAULT_CONFIG is in the effective
\* configuration, and so is every nested key of each section that no merged
\* override document replaces by a scalar, array or null.
C2_DefaultKeysKept ==
  pc = "resolved" =>
    \A sec \in DefaultSections :
      /\ Present(Get(config, sec))
      /\ ~SectionReplaced(sec) =>
           \A key \in DOMAIN DEFAULT_CONFIG.o[sec].o :
             Present(At(config, <<sec, key>>))

C2_Witness ==
  /\ pc = "resolved"
  /\ CustomAppliesIn(files)
  /\ FirstLoadableIn(files) # {}
  /\ Present(At(CustomDocIn(files), <<"calendar", "lookaheadDays">>))
  /\ Present(At(StandardDocIn(files), <<"calendar", "id">>))
  /\ ~SectionReplaced("calendar")
  /\ Present(At(config, <<"calendar", "enabled">>))
  /\ Present(At(config, <<"calendar", "showFocusTime">>))

\* Every document that parses is a key/value tree (a JSON object).
AllDocsMappings ==
  \A loc \in Locations :
    (files[loc].exists /\ files[loc].parses) => IsMapping(files[loc].doc)

\* Every present, parseable document merged, lowest priority first.
RECURSIVE MergeAll(_, _)
MergeAll(acc, locs) ==
  IF locs = <<>> THEN acc
  ELSE MergeAll(IF files[Head(locs)].exists /\ files[Head(locs)].parses
                   /\ ~MergeThrows(files[Head(locs)].doc)
                THEN deepMerge(acc, files[Head(locs)].doc) ELSE acc,
                Tail(locs))

\* C3 as stated: the effective configuration is the defaults with every
\* present, parseable override document (the three standard locations and the
\* --config file) deep-merged on top in priority order.
C3_AllDocumentsMerged ==
  (pc = "resolved" /\ AllDocsMappings) =>
    config = MergeAll(DEFAULT_CONFIG, <<"DIR_JSON", "HOME_JSON", "CONFIG_PATH", "CUSTOM">>)

\* C3 amended: the effective configuration is the defaults with the first
\* loadable standard file deep-merged on top (later standard files are not
\* read) and then the --config document, when it is read and truthy, merged
\* onto that; a top-level key only one merged document sets has its value.
C3_FirstFileThenCustomMerged ==
  pc = "resolved" =>
    /\ config = ExpectedConfig(files)
    /\ \A i \in 1..2 :
         (/\ Present(Get(MergedSources[i], "extra"))
          /\ ~Present(Get(MergedSources[3 - i], "extra")))
           => Get(config, "extra") = Get(MergedSources[i], "extra")

C3_Witness ==
  /\ pc = "resolved"
  /\ FirstLoadableIn(files) = {2}
  /\ LoadableIn(files, "DIR_JSON")
  /\ CustomAppliesIn(files)
  /\ Present(Get(StandardDocIn(files), "extra"))
  /\ Present(At(CustomDocIn(files), <<"calendar", "lookaheadDays">>))
  /\ Get(config, "extra") = Get(StandardDocIn(files), "extra")
  /\ At(config, <<"calendar", "lookaheadDays">>)
       = At(CustomDocIn(files), <<"calendar", "lookaheadDays">>)

KeyPaths ==
  {<<"extra">>, <<"calendar">>, <<"calendar", "lookaheadDays">>,
   <<"calendar", "id">>, <<"calendar", "id", "extra">>}

\* The document a source holds (undefined when there is none to read).
SourceDoc(loc) ==
  IF files[loc].exists /\ files[loc].parses THEN files[loc].doc ELSE Undefined

AllSources ==
  <<SourceDoc("CUSTOM"), SourceDoc("CONFIG_PATH"), SourceDoc("HOME_JSON"),
    SourceDoc("DIR_JSON"), DEFAULT_CONFIG>>

Min(S) == CHOOSE x \in S : \A y \in S : x <= y

\* C4 as stated: when several sources set the same leaf key, the effective
\* value is that of the highest-priority one, in the order --config,
\* ~/.config/morning-dashboard/config.json, ~/.morning-dashboard.json,
\* ./config.json, defaults.
C4_HighestPrioritySourceWins ==
  (pc = "resolved" /\ AllDocsMappings) =>
    \A p \in KeyPaths :
      LET setters == {i \in 1..5 : IsLeaf(At(AllSources[i], p))}
      IN Cardinality(setters) >= 2
           => At(config, p) = At(AllSources[Min(setters)], p)

\* The document gives the path a value, or replaces a section enclosing it.
RECURSIVE Touches(_, _)
Touches(doc, path) ==
  /\ path # <<>>
  /\ Present(Get(doc, Head(path)))
  /\ \/ Len(path) = 1
     \/ ~IsMapping(Get(doc, Head(path)))
     \/ Touches(Get(doc, Head(path)), Tail(path))

\* C4 amended: among the sources that are merged (the --config document, then
\* the first loadable standard file, then the defaults) the highest-priority
\* one that sets the key or replaces a section enclosing it decides: when it
\* sets the key to a leaf, that is the effective value.
C4_HighestMergedSourceWins ==
  pc = "resolved" =>
    \A p \in KeyPaths :
      LET touchers == {i \in 1..3 : Touches(MergedSources[i], p)}
      IN (touchers # {} /\ IsLeaf(At(MergedSources[Min(touchers)], p)))
           => At(config, p) = At(MergedSources[Min(touchers)], p)

C4_Witness ==
  /\ pc = "resolved"
  /\ files["CONFIG_PATH"] = Malformed
  /\ IsLeaf(At(CustomDocIn(files), <<"calendar", "lookaheadDays">>))
  /\ IsLeaf(At(StandardDocIn(files), <<"calendar", "lookaheadDays">>))
  /\ At(CustomDocIn(files), <<"calendar", "lookaheadDays">>)
       # At(StandardDocIn(files), <<"calendar", "lookaheadDays">>)
  /\ At(config, <<"calendar", "lookaheadDays">>)
       = At(CustomDocIn(files), <<"calendar", "lookaheadDays">>)

\* A document that exists and fails to parse.
IsMalformed(loc) == files[loc].exists /\ ~files[loc].parses

AsIfAbsent(fs) ==
  [loc \in Locations |-> IF fs[loc].exists /\ ~fs[loc].parses THEN Missing ELSE fs[loc]]

C6_MissingFilesGiveDefaults ==
  /\ \A loc \in Locations : ~files[loc].exists => loc \notin warnings
  /\ (pc = "resolved" /\ \A loc \in Locations : ~files[loc].exists)
       => config = DEFAULT_CONFIG

C6_Witness ==
  /\ pc = "resolved"
  /\ args.configPath = "CUSTOM"
  /\ \A loc \in Locations : ~files[loc].exists
  /\ config = DEFAULT_CONFIG
  /\ warnings = {}

(***************************************************************************)
(* calculateFocusTime.  Instants are milliseconds since local midnight of  *)
(* today; a duration is the quotient ms / 60000 kept exact as a fraction.  *)
(***************************************************************************)
MsPerMinute == 60000
WorkStartHour == 9
WorkEndHour == 18
MinBlockMinutes == 30
MaxBlocks == 3

\* The instant h:m:s of today.
At_HMS(h, m, sec) == ((h * 60 + m) * 60 + sec) * 1000

\* Mutant: the day ends two hours later.
endOfDayLate == At_HMS(WorkEndHour + 2, 0, 0)

\* endOfDay.setHours(18, 0, 0, 0)
endOfDay == At_HMS(WorkEndHour, 0, 0)

\* new Date().setHours(9, 0, 0, 0)
startOfWork == At_HMS(WorkStartHour, 0, 0)

Max(x, y) == IF x >= y THEN x ELSE y

\* (later - earlier) / 60000
Minutes(ms) == [num |-> ms, den |-> MsPerMinute]

\* duration >= n, for a whole number n
AtLeast(duration, n) == duration.num >= n * duration.den

TimedEvent(id, start, end) == [id |-> id, start |-> start, end |-> end, allDay |-> FALSE]

\* An event with a date and no dateTime: today, midnight to midnight.
AllDayEvent(id) == [id |-> id, start |-> 0, end |-> At_HMS(24, 0, 0), allDay |-> TRUE]

\* The events the calendar may hold today.
EventPool ==
  {AllDayEvent("allday"),
   TimedEvent("early", At_HMS(8, 30, 0), At_HMS(9, 30, 0)),
   TimedEvent("standup", At_HMS(9, 0, 0), At_HMS(9, 30, 0)),
   TimedEvent("review", At_HMS(10, 0, 0), At_HMS(11, 0, 0)),
   TimedEvent("overlap", At_HMS(10, 30, 0), At_HMS(12, 0, 0)),
   TimedEvent("lunch", At_HMS(11, 0, 0), At_HMS(12, 0, 0)),
   TimedEvent("short", At_HMS(12, 20, 0), At_HMS(13, 0, 0)),
   TimedEvent("sync", At_HMS(13, 0, 0), At_HMS(14, 0, 0)),
   TimedEvent("backwards", At_HMS(14, 30, 0), At_HMS(14, 0, 0)),
   TimedEvent("demo", At_HMS(15, 0, 0), At_HMS(16, 0, 0)),
   TimedEvent("late", At_HMS(17, 0, 0), At_HMS(19, 0, 0)),
   TimedEvent("allhands", At_HMS(9, 0, 0), At_HMS(18, 0, 0)),
   TimedEvent("dinner", At_HMS(18, 30, 0), At_HMS(19, 30, 0))}

\* The instants at which the dashboard may run.
NowChoices ==
  {At_HMS(8, 0, 0), At_HMS(9, 0, 0), At_HMS(9, 0, 30), At_HMS(10, 15, 0),
   At_HMS(17, 30, 0), At_HMS(17, 45, 0), At_HMS(18, 0, 0), At_HMS(19, 0, 0)}

MaxEvents == 3

\* Mutant: the comparator looks at the start only.
FetchBeforeByStartOnly(a, b) == a.start < b.start

\* The comparator of fetchCalendarEvents: negative when a sorts before b.
FetchBefore(a, b) ==
  \/ a.allDay /\ ~b.allDay
  \/ a.allDay = b.allDay /\ a.start < b.start

\* The lists fetchCalendarEvents can return: distinct events, all-day ones
\* first, then by start.
EventLists ==
  {evs \in UNION {[1..n -> EventPool] : n \in 0..MaxEvents} :
     \A i \in DOMAIN evs, j \in DOMAIN evs :
       i < j => evs[i] # evs[j] /\ ~FetchBefore(evs[j], evs[i])}

\* config.calendar?.showFocusTime
showFocusTime == Truthy(At(config, <<"calendar", "showFocusTime">>))

FocusConfigs ==
  {DEFAULT_CONFIG,
   deepMerge(DEFAULT_CONFIG, Obj([calendar |-> Obj([showFocusTime |-> Bool(FALSE)])]))}

InitFocus ==
  /\ pc = "calculateFocusTime"
  /\ events \in EventLists
  /\ now \in NowChoices
  /\ todayEvents = <<>>
  /\ currentTime = 0
  /\ focusBlocks = <<>>
  /\ returned = <<>>
  /\ args = <<>> /\ files = <<>> /\ idx = 0 /\ warnings = {}
  /\ config \in FocusConfigs
  /\ MergeIdle
  /\ RenderIdle
  /\ FetchIdle
  /\ InstallIdle
  /\ SetupIdle
  /\ ProxyIdle

\* .sort((a, b) => new Date(a.start) - new Date(b.start)): a stable sort.
RECURSIVE SortByStart(_)
SortByStart(evs) ==
  IF evs = <<>> THEN <<>>
  ELSE LET n == Len(evs)
           front == SortByStart(SubSeq(evs, 1, n - 1))
           keep == Cardinality({i \in DOMAIN front : front[i].start <= evs[n].start})
       IN SubSeq(front, 1, keep) \o <<evs[n]>> \o SubSeq(front, keep + 1, Len(front))

\* Mutant: the filter has no upper limit on the start.
InTodayWindowNoEnd(e) == ~e.allDay /\ e.start >= now

\* Mutant: the filter starts at windowStart = max(now, 09:00) instead of now.
InTodayWindowFromWorkStart(e) ==
  ~e.allDay /\ e.start >= Max(now, startOfWork) /\ e.start < endOfDay

\* e => !e.allDay && new Date(e.start) >= now && new Date(e.start) < endOfDay
InTodayWindow(e) == ~e.allDay /\ e.start >= now /\ e.start < endOfDay

\* Mutant: the first guard tests the flag only.
FocusSkippedFlagOnly == ~showFocusTime

\* !config.calendar?.showFocusTime || events.length === 0
FocusSkipped == ~showFocusTime \/ Len(events) = 0

\* calculateFocusTime: the first guard returns [].
FocusReturnSkipped ==
  /\ pc = "calculateFocusTime"
  /\ FocusSkipped
  /\ returned' = <<>>
  /\ pc' = "returned"
  /\ UNCHANGED <<events, now, todayEvents, currentTime, focusBlocks,
                 mergeVars, configVars,
                 renderVars, fetchVars, installVars,
                 setupVars, proxyVars>>

\* calculateFocusTime: now >= endOfDay returns [].
FocusReturnDayOver ==
  /\ pc = "calculateFocusTime"
  /\ ~FocusSkipped
  /\ now >= endOfDay
  /\ returned' = <<>>
  /\ pc' = "returned"
  /\ UNCHANGED <<events, now, todayEvents, currentTime, focusBlocks,
                 mergeVars, configVars,
                 renderVars, fetchVars, installVars,
                 setupVars, proxyVars>>

\* Mutant: the cursor starts at now, not at max(now, 09:00).
FocusFilterCursorAtNow ==
  /\ pc = "calculateFocusTime"
  /\ ~FocusSkipped
  /\ now < endOfDay
  /\ todayEvents' = SortByStart(SelectSeq(events, InTodayWindow))
  /\ focusBlocks' = <<>>
  /\ currentTime' = now
  /\ pc' = "walk"
  /\ UNCHANGED <<events, now, returned, mergeVars, configVars, renderVars,
                 fetchVars, installVars,
                 setupVars, proxyVars>>

\* calculateFocusTime: todayEvents is filtered and sorted, the cursor starts
\* at max(now, 09:00).
FocusFilter ==
  /\ pc = "calculateFocusTime"
  /\ ~FocusSkipped
  /\ now < endOfDay
  /\ todayEvents' = SortByStart(SelectSeq(events, InTodayWindow))
  /\ focusBlocks' = <<>>
  /\ currentTime' = Max(now, startOfWork)
  /\ pc' = "walk"
  /\ UNCHANGED <<events, now, returned, mergeVars, configVars, renderVars,
                 fetchVars, installVars,
                 setupVars, proxyVars>>

\* Mutant: any gap before the event is a block, however short.
GapBeforeAnyLength(event) == event.start > currentTime

\* The gap before the next event is a block: it is pushed.
GapBefore(event) ==
  /\ event.start > currentTime
  /\ AtLeast(Minutes(event.start - currentTime), MinBlockMinutes)

\* Mutant: a pushed block starts at windowStart instead of at the cursor.
FocusWalkPushFromWorkStart ==
  /\ pc = "walk"
  /\ todayEvents # <<>>
  /\ GapBefore(Head(todayEvents))
  /\ focusBlocks' = Append(focusBlocks,
       [start |-> Max(now, startOfWork), end |-> Head(todayEvents).start,
        duration |-> Minutes(Head(todayEvents).start - Max(now, startOfWork))])
  /\ currentTime' = Max(currentTime, Head(todayEvents).end)
  /\ todayEvents' = Tail(todayEvents)
  /\ UNCHANGED <<pc, events, now, returned, mergeVars, configVars, renderVars,
                 fetchVars, installVars,
                 setupVars, proxyVars>>

\* One turn of the loop that pushes the gap before the event.
FocusWalkPush ==
  /\ pc = "walk"
  /\ todayEvents # <<>>
  /\ GapBefore(Head(todayEvents))
  /\ focusBlocks' = Append(focusBlocks,
       [start |-> currentTime, end |-> Head(todayEvents).start,
        duration |-> Minutes(Head(todayEvents).start - currentTime)])
  /\ currentTime' = Max(currentTime, Head(todayEvents).end)
  /\ todayEvents' = Tail(todayEvents)
  /\ UNCHANGED <<pc, events, now, returned, mergeVars, configVars, renderVars,
                 fetchVars, installVars,
                 setupVars, proxyVars>>

\* Mutant: the cursor is set to the event's end without the max.
FocusWalkSkipToEventEnd ==
  /\ pc = "walk"
  /\ todayEvents # <<>>
  /\ ~GapBefore(Head(todayEvents))
  /\ currentTime' = Head(todayEvents).end
  /\ todayEvents' = Tail(todayEvents)
  /\ UNCHANGED <<pc, events, now, focusBlocks, returned, mergeVars, configVars,
                 renderVars, fetchVars, installVars,
                 setupVars, proxyVars>>

\* One turn of the loop that pushes nothing; the cursor still advances.
FocusWalkSkip ==
  /\ pc = "walk"
  /\ todayEvents # <<>>
  /\ ~GapBefore(Head(todayEvents))
  /\ currentTime' = Max(currentTime, Head(todayEvents).end)
  /\ todayEvents' = Tail(todayEvents)
  /\ UNCHANGED <<pc, events, now, focusBlocks, returned, mergeVars, configVars,
                 renderVars, fetchVars, installVars,
                 setupVars, proxyVars>>

\* The gap from the cursor to endOfDay is a block.
TrailingGap ==
  /\ currentTime < endOfDay
  /\ AtLeast(Minutes(endOfDay - currentTime), MinBlockMinutes)

\* After the loop: the trailing gap is pushed.
FocusTrailingPush ==
  /\ pc = "walk"
  /\ todayEvents = <<>>
  /\ TrailingGap
  /\ focusBlocks' = Append(focusBlocks,
       [start |-> currentTime, end |-> endOfDay,
        duration |-> Minutes(endOfDay - currentTime)])
  /\ pc' = "slice"
  /\ UNCHANGED <<events, now, todayEvents, currentTime, returned,
                 mergeVars, configVars,
                 renderVars, fetchVars, installVars,
                 setupVars, proxyVars>>

\* After the loop: no trailing block.
FocusTrailingSkip ==
  /\ pc = "walk"
  /\ todayEvents = <<>>
  /\ ~TrailingGap
  /\ pc' = "slice"
  /\ UNCHANGED <<events, now, todayEvents, currentTime, focusBlocks, returned,
                 mergeVars, configVars,
                 renderVars, fetchVars, installVars,
                 setupVars, proxyVars>>

\* Mutant: the whole list is returned.
FocusReturnAll ==
  /\ pc = "slice"
  /\ returned' = focusBlocks
  /\ pc' = "returned"
  /\ UNCHANGED <<events, now, todayEvents, currentTime, focusBlocks,
                 mergeVars, configVars,
                 renderVars, fetchVars, installVars,
                 setupVars, proxyVars>>

\* return focusBlocks.slice(0, 3)
FocusReturnSlice ==
  /\ pc = "slice"
  /\ returned' = SubSeq(focusBlocks, 1, IF Len(focusBlocks) < MaxBlocks
                                         THEN Len(focusBlocks) ELSE MaxBlocks)
  /\ pc' = "returned"
  /\ UNCHANGED <<events, now, todayEvents, currentTime, focusBlocks,
                 mergeVars, configVars,
                 renderVars, fetchVars, installVars,
                 setupVars, proxyVars>>

NextFocus ==
  \/ FocusReturnSkipped
  \/ FocusReturnDayOver
  \/ FocusFilter
  \/ FocusWalkPush
  \/ FocusWalkSkip
  \/ FocusTrailingPush
  \/ FocusTrailingSkip
  \/ FocusReturnSlice

SpecFocus == InitFocus /\ [][NextFocus]_vars

\* windowStart = max(current instant, 09:00 today)
WindowStart == Max(now, At_HMS(9, 0, 0))

\* The block spanning from one instant to another.
Block(from, to) == [start |-> from, end |-> to, duration |-> Minutes(to - from)]

C10_WitnessAllDayOnly ==
  /\ pc = "returned"
  /\ Len(events) = 1 /\ events[1].allDay
  /\ now = At_HMS(9, 0, 0)
  /\ Len(returned) = 1
  /\ returned[1].start = At_HMS(9, 0, 0) /\ returned[1].end = At_HMS(18, 0, 0)
  /\ returned[1].duration.num = 540 * returned[1].duration.den

\* The greatest element of a non-empty set of instants.
MaxOf(S) == CHOOSE x \in S : \A y \in S : y <= x

\* Where the cursor stands after a walk over the selected events.
CursorAfter(selected) ==
  MaxOf({WindowStart} \cup {selected[i].end : i \in DOMAIN selected})

\* The events C11 says are considered: timed, start in [windowStart, 18:00).
ConsideredAsStated(e) ==
  ~e.allDay /\ e.start >= WindowStart /\ e.start < At_HMS(18, 0, 0)

\* The events that are considered: timed, start in [now, 18:00).
Considered(e) == ~e.allDay /\ e.start >= now /\ e.start < At_HMS(18, 0, 0)

\* s is a suffix of t.
IsSuffix(s, t) ==
  /\ Len(s) <= Len(t)
  /\ s = SubSeq(t, Len(t) - Len(s) + 1, Len(t))

C12_OrderedAndDisjoint ==
  pc = "returned" =>
    \A i \in 1..(Len(returned) - 1) :
      /\ returned[i].start <= returned[i + 1].start
      /\ returned[i].end <= returned[i + 1].start

\* C12 amended: the returned blocks are in non-decreasing start order for
\* every event list and instant; each block ends at or before the start of
\* the next whenever every timed event starting in [now, 18:00) ends at or
\* after its own start.
C12_OrderedAndDisjointWhenWellFormed ==
  pc = "returned" =>
    \A i \in 1..(Len(returned) - 1) :
      /\ returned[i].start <= returned[i + 1].start
      /\ (\A k \in DOMAIN events :
            Considered(events[k]) => events[k].end >= events[k].start)
           => returned[i].end <= returned[i + 1].start

\* Two overlapping events (10:00-11:00, 10:30-12:00) at now = 09:00: the
\* blocks [09:00, 10:00) and [12:00, 18:00).
C12_Witness ==
  /\ pc = "returned"
  /\ now = At_HMS(9, 0, 0)
  /\ Len(events) = 2
  /\ events[1].start = At_HMS(10, 0, 0) /\ events[1].end = At_HMS(11, 0, 0)
  /\ events[2].start = At_HMS(10, 30, 0) /\ events[2].end = At_HMS(12, 0, 0)
  /\ returned = <<Block(At_HMS(9, 0, 0), At_HMS(10, 0, 0)),
                  Block(At_HMS(12, 0, 0), At_HMS(18, 0, 0))>>

\* C13: during the walk the cursor never moves backward; after each event it
\* is the later of the previous cursor and the event's end, whatever the
\* events (overlapping, or with end < start); and no emitted block has a zero
\* or negative duration.
C13_CursorNeverBackward ==
  /\ [](\A i \in DOMAIN focusBlocks :
          /\ focusBlocks[i].end > focusBlocks[i].start
          /\ focusBlocks[i].duration.num > 0
          /\ focusBlocks[i].duration.den > 0)
  /\ [][pc = "walk" =>
          /\ currentTime' >= currentTime
          /\ todayEvents # <<>> =>
               currentTime' = (IF Head(todayEvents).end > currentTime
                               THEN Head(todayEvents).end ELSE currentTime)]_vars

\* The overlapping events 10:00-11:00 and 10:30-12:00 at now = 09:00 leave
\* the cursor at 12:00 with the one block [09:00, 10:00) emitted so far.
C13_Witness ==
  /\ pc = "walk"
  /\ now = At_HMS(9, 0, 0)
  /\ Len(events) = 2
  /\ events[1].start = At_HMS(10, 0, 0) /\ events[1].end = At_HMS(11, 0, 0)
  /\ events[2].start = At_HMS(10, 30, 0) /\ events[2].end = At_HMS(12, 0, 0)
  /\ todayEvents = <<>>
  /\ currentTime = At_HMS(12, 0, 0)
  /\ focusBlocks = <<Block(At_HMS(9, 0, 0), At_HMS(10, 0, 0))>>

\* An event with end < start (14:30-14:00) has been walked from 09:00: the
\* cursor is at 14:00, the event's end, not before where it was.
C13_WitnessMalformed ==
  /\ pc = "walk"
  /\ now = At_HMS(9, 0, 0)
  /\ Len(events) = 1
  /\ events[1].start = At_HMS(14, 30, 0) /\ events[1].end = At_HMS(14, 0, 0)
  /\ todayEvents = <<>>
  /\ currentTime = At_HMS(14, 0, 0)

\* C14: every returned block lasts at least 30 minutes, whether it is a gap
\* between events or the trailing gap up to 18:00.
C14_NoShortBlock ==
  pc = "returned" =>
    \A i \in DOMAIN returned :
      returned[i].end - returned[i].start >= 30 * 60000

\* now = 10:15 with 11:00-12:00 and 12:20-13:00: the 45-minute gap before the
\* first event and the trailing gap are blocks, the 20-minute gap between the
\* events is not.
C14_Witness ==
  /\ pc = "returned"
  /\ now = At_HMS(10, 15, 0)
  /\ Len(events) = 2
  /\ events[1].start = At_HMS(11, 0, 0) /\ events[1].end = At_HMS(12, 0, 0)
  /\ events[2].start = At_HMS(12, 20, 0) /\ events[2].end = At_HMS(13, 0, 0)
  /\ returned = <<Block(At_HMS(10, 15, 0), At_HMS(11, 0, 0)),
                  Block(At_HMS(13, 0, 0), At_HMS(18, 0, 0))>>

\* C15: at most 3 blocks are returned; when more candidate blocks qualify,
\* the result is the first 3 of them, in their order, and no dropped block
\* starts before a returned one.
C15_AtMostThreeEarliest ==
  pc = "returned" =>
    /\ Len(returned) <= 3
    /\ Len(focusBlocks) > 3 => Len(returned) = 3
    /\ Len(focusBlocks) <= 3 => Len(returned) = Len(focusBlocks)
    /\ \A i \in DOMAIN returned : returned[i] = focusBlocks[i]
    /\ \A i \in DOMAIN returned, j \in DOMAIN focusBlocks :
         j > Len(returned) => returned[i].start <= focusBlocks[j].start

\* now = 09:00 with 10:00-11:00, 13:00-14:00 and 15:00-16:00: four gaps
\* qualify, the first three are returned.
C15_Witness ==
  /\ pc = "returned"
  /\ now = At_HMS(9, 0, 0)
  /\ Len(focusBlocks) = 4
  /\ returned = <<Block(At_HMS(9, 0, 0), At_HMS(10, 0, 0)),
                  Block(At_HMS(11, 0, 0), At_HMS(13, 0, 0)),
                  Block(At_HMS(14, 0, 0), At_HMS(15, 0, 0))>>

\* C16: when the current instant is at or after 18:00, the result is empty
\* whatever the events are, and the walk is never entered.
C16_EmptyAfterWorkEnd ==
  now >= At_HMS(18, 0, 0) =>
    /\ pc \notin {"walk", "slice"}
    /\ focusBlocks = <<>>
    /\ pc = "returned" => returned = <<>>

\* now = 18:00 with an 18:30-19:30 event and focus time enabled: no block.
C16_Witness ==
  /\ pc = "returned"
  /\ now = At_HMS(18, 0, 0)
  /\ showFocusTime
  /\ Len(events) = 1
  /\ events[1].start = At_HMS(18, 30, 0) /\ events[1].end = At_HMS(19, 30, 0)
  /\ returned = <<>>

\* The loop of calculateFocusTime as a function: the blocks pushed by a walk
\* over evs that starts with the cursor at cursor and the list blocks,
\* followed by the trailing block.
RECURSIVE WalkFrom(_, _, _)
WalkFrom(evs, cursor, blocks) ==
  IF evs = <<>>
  THEN IF cursor < endOfDay
          /\ AtLeast(Minutes(endOfDay - cursor), MinBlockMinutes)
       THEN Append(blocks, [start |-> cursor, end |-> endOfDay,
                            duration |-> Minutes(endOfDay - cursor)])
       ELSE blocks
  ELSE LET event == Head(evs)
           pushed == /\ event.start > cursor
                     /\ AtLeast(Minutes(event.start - cursor), MinBlockMinutes)
       IN  WalkFrom(Tail(evs), Max(cursor, event.end),
                    IF pushed
                    THEN Append(blocks,
                           [start |-> cursor, end |-> event.start,
                            duration |-> Minutes(event.start - cursor)])
                    ELSE blocks)

\* calculateFocusTime as a function of the event list, the current instant t
\* and the showFocusTime flag.
calculateFocusTime(evs, t, show) ==
  IF ~show \/ Len(evs) = 0 THEN <<>>
  ELSE IF t >= endOfDay THEN <<>>
  ELSE LET inWindow(e) == ~e.allDay /\ e.start >= t /\ e.start < endOfDay
           blocks == WalkFrom(SortByStart(SelectSeq(evs, inWindow)),
                              Max(t, startOfWork), <<>>)
       IN  SubSeq(blocks, 1, IF Len(blocks) < MaxBlocks
                             THEN Len(blocks) ELSE MaxBlocks)

\* The run of calculateFocusTime returns what the function gives.
FocusRunAgrees ==
  pc = "returned" => returned = calculateFocusTime(events, now, showFocusTime)

\* The timed events of a list.
IsTimed(e) == ~e.allDay

\* C17 as stated: the returned blocks are the ones calculateFocusTime gives
\* for the same list without its all-day events.
C17_AllDayEventsIgnored ==
  pc = "returned" =>
    returned = calculateFocusTime(SelectSeq(events, IsTimed), now, showFocusTime)

\* C18: when the only timed event spans 09:00-18:00 and now is at or before
\* 09:00, no focus block is returned.
C18_FullDayEventNoBlock ==
  (/\ pc = "returned"
   /\ now <= At_HMS(9, 0, 0)
   /\ \E i \in DOMAIN events :
        /\ ~events[i].allDay
        /\ events[i].start = At_HMS(9, 0, 0)
        /\ events[i].end = At_HMS(18, 0, 0)
        /\ \A j \in DOMAIN events : j # i => events[j].allDay)
    => returned = <<>>

\* now = 08:00, focus time enabled, the one event 09:00-18:00: the walk has
\* run, the cursor is at 18:00 and nothing is returned.
C18_Witness ==
  /\ pc = "returned"
  /\ now = At_HMS(8, 0, 0)
  /\ showFocusTime
  /\ Len(events) = 1
  /\ events[1].start = At_HMS(9, 0, 0) /\ events[1].end = At_HMS(18, 0, 0)
  /\ currentTime = At_HMS(18, 0, 0)
  /\ returned = <<>>

\* C19 as stated: every returned block carries a whole number of minutes,
\* floor((end - start) / 60000), as its duration.
C19_DurationWholeMinutes ==
  pc = "returned" =>
    \A i \in DOMAIN returned :
      /\ returned[i].duration.num % returned[i].duration.den = 0
      /\ returned[i].duration.num =
           ((returned[i].end - returned[i].start) \div 60000)
             * returned[i].duration.den

(***************************************************************************)
(* parseArgs and the terminal dashboard of main.  argv holds the words of  *)
(* the command line still to read; args is the options object; rendered    *)
(* lists what main has written: "header", "weather" (the weather line of   *)
(* the header), "quote", "tasks", "calendar", "email", "github", "footer", *)
(* or "json" for the --json dump.                                          *)
(***************************************************************************)
MaxArgs == 2
MaxNotifications == 1

\* The flags that push a fixed section name.
SectionFlags == {"--tasks", "--calendar", "--email", "--weather", "--github"}

\* case '--tasks': options.sections.push('tasks') ...
FlagSection(flag) ==
  CASE flag = "--tasks" -> "tasks"
    [] flag = "--calendar" -> "calendar"
    [] flag = "--email" -> "email"
    [] flag = "--weather" -> "weather"
    [] flag = "--github" -> "github"

\* The words a command line is made of.
Words == SectionFlags \cup {"-s", "--compact", "--json", "weather", "notes"}

CommandLines == UNION {[1..n -> Words] : n \in 0..MaxArgs}

\* obj[key] = value
SetProp(obj, key, value) ==
  Obj([name \in DOMAIN obj.o \cup {key} |->
         IF name = key THEN value ELSE obj.o[name]])

\* A section that sets enabled to false.
Disabled == Obj([enabled |-> Bool(FALSE)])

\* The documents of the configuration file the dashboard is started with.
RenderDocs ==
  {Obj([display |-> Obj([showGreeting |-> Bool(FALSE),
                         showSummary |-> Bool(FALSE)])]),
   Obj([display |-> Obj([width |-> Num(100)])]),
   Obj([quote |-> Disabled]), Obj([gmail |-> Disabled]),
   Obj([calendar |-> Disabled]), Obj([todoist |-> Disabled]),
   Obj([github |-> Disabled]), Obj([weather |-> Disabled])}

\* What lies at CONFIG_PATH when the dashboard is started.
RenderFiles == {Missing} \cup {Parsed(doc) : doc \in RenderDocs}

\* loadConfig with at most the file at CONFIG_PATH: DEFAULT_CONFIG itself
\* without a file, deepMerge(DEFAULT_CONFIG, userConfig) with one.
Loaded(file) ==
  IF file.exists THEN deepMerge(DEFAULT_CONFIG, file.doc) ELSE DEFAULT_CONFIG

\* The sections of loadConfig's result that are the very objects of
\* DEFAULT_CONFIG: all of them when DEFAULT_CONFIG itself is returned; with a
\* file, those { ...target } copied by reference, the keys the file lacks.
SharedAfterLoad(file) ==
  IF file.exists THEN DOMAIN DEFAULT_CONFIG.o \ ObjectKeys(file.doc)
  ELSE DOMAIN DEFAULT_CONFIG.o

\* The configurations the dashboard is rendered with.
RenderConfigs == {Loaded(file) : file \in RenderFiles}

\* What the services hold: whether the weather can be fetched and how many
\* unread GitHub notifications there are.
DataChoices == [weather : BOOLEAN, github : 0..MaxNotifications]

\* fetchAllData, as far as main's rendering depends on it: weather is null
\* and github is empty when the section is not enabled.
fetchAllData(cfg) ==
  [weather |-> Truthy(At(cfg, <<"weather", "enabled">>)) /\ services.weather,
   github |-> IF Truthy(At(cfg, <<"github", "enabled">>))
              THEN services.github ELSE 0]

InitRender ==
  /\ pc = "parseArgs"
  /\ argv \in CommandLines
  /\ args = [sections |-> <<>>, compact |-> FALSE, json |-> FALSE]
  /\ \E file \in RenderFiles :
       /\ files = [l \in Locations |->
                     IF l = "CONFIG_PATH" THEN file ELSE Missing]
       /\ config = Loaded(file)
       /\ shared = SharedAfterLoad(file)
  /\ defaults = DEFAULT_CONFIG
  /\ services \in DataChoices
  /\ data = [weather |-> FALSE, github |-> 0]
  /\ rendered = <<>>
  /\ idx = 0 /\ warnings = {}
  /\ MergeIdle
  /\ FocusIdle
  /\ FetchIdle
  /\ InstallIdle
  /\ SetupIdle
  /\ ProxyIdle

\* case '--tasks' ... '--github': the flag's section is pushed.
ParseSectionFlag ==
  /\ pc = "parseArgs"
  /\ argv # <<>>
  /\ Head(argv) \in SectionFlags
  /\ args' = [args EXCEPT !.sections = Append(@, FlagSection(Head(argv)))]
  /\ argv' = Tail(argv)
  /\ UNCHANGED <<pc, files, idx, config, warnings, services, data, rendered, defaults, shared,
                 mergeVars, focusVars, fetchVars,
                 installVars,
                 setupVars, proxyVars>>

\* case '-s': the next word, when there is one, is pushed as a section name.
ParseSectionOption ==
  /\ pc = "parseArgs"
  /\ argv # <<>>
  /\ Head(argv) = "-s"
  /\ Len(argv) >= 2
  /\ args' = [args EXCEPT !.sections = Append(@, argv[2])]
  /\ argv' = Tail(Tail(argv))
  /\ UNCHANGED <<pc, files, idx, config, warnings, services, data, rendered, defaults, shared,
                 mergeVars, focusVars, fetchVars,
                 installVars,
                 setupVars, proxyVars>>

\* case '-s' as the last word: nothing is pushed.
ParseSectionOptionLast ==
  /\ pc = "parseArgs"
  /\ argv = <<"-s">>
  /\ argv' = <<>>
  /\ UNCHANGED <<pc, args, files, idx, config, warnings, services, data, rendered, defaults, shared,
                 mergeVars, focusVars, fetchVars,
                 installVars,
                 setupVars, proxyVars>>

\* case '--compact'
ParseCompact ==
  /\ pc = "parseArgs"
  /\ argv # <<>>
  /\ Head(argv) = "--compact"
  /\ args' = [args EXCEPT !.compact = TRUE]
  /\ argv' = Tail(argv)
  /\ UNCHANGED <<pc, files, idx, config, warnings, services, data, rendered, defaults, shared,
                 mergeVars, focusVars, fetchVars,
                 installVars,
                 setupVars, proxyVars>>

\* case '--json'
ParseJson ==
  /\ pc = "parseArgs"
  /\ argv # <<>>
  /\ Head(argv) = "--json"
  /\ args' = [args EXCEPT !.json = TRUE]
  /\ argv' = Tail(argv)
  /\ UNCHANGED <<pc, files, idx, config, warnings, services, data, rendered, defaults, shared,
                 mergeVars, focusVars, fetchVars,
                 installVars,
                 setupVars, proxyVars>>

\* A word no case matches is passed over.
ParseOther ==
  /\ pc = "parseArgs"
  /\ argv # <<>>
  /\ Head(argv) \notin SectionFlags \cup {"-s", "--compact", "--json"}
  /\ argv' = Tail(argv)
  /\ UNCHANGED <<pc, args, files, idx, config, warnings, services, data, rendered, defaults, shared,
                 mergeVars, focusVars, fetchVars,
                 installVars,
                 setupVars, proxyVars>>

\* return options
ParseReturn ==
  /\ pc = "parseArgs"
  /\ argv = <<>>
  /\ pc' = "dashboard"
  /\ UNCHANGED <<args, argv, files, idx, config, warnings, services, data, rendered, defaults, shared,
                 mergeVars, focusVars, fetchVars,
                 installVars,
                 setupVars, proxyVars>>

\* const showAll = args.sections.length === 0
showAll == Len(args.sections) = 0

\* const shouldShow = (section) => showAll || args.sections.includes(section)
shouldShow(section) ==
  showAll \/ \E i \in DOMAIN args.sections : args.sections[i] = section

\* if (args.compact) config.display.compact = true
CompactApplied ==
  IF args.compact
  THEN SetProp(config, "display",
               SetProp(Get(config, "display"), "compact", Bool(TRUE)))
  ELSE config

\* The same assignment seen through DEFAULT_CONFIG: when config.display is
\* DEFAULT_CONFIG.display, the property is set on that one object.
DefaultsAfterCompact ==
  IF args.compact /\ "display" \in shared
  THEN SetProp(defaults, "display",
               SetProp(Get(defaults, "display"), "compact", Bool(TRUE)))
  ELSE defaults

\* main, terminal dashboard with --json: the data is printed and the process
\* exits.
MainJson ==
  /\ pc = "dashboard"
  /\ args.json
  /\ config' = CompactApplied
  /\ defaults' = DefaultsAfterCompact
  /\ data' = fetchAllData(CompactApplied)
  /\ UNCHANGED shared
  /\ rendered' = <<"json">>
  /\ pc' = "exit"
  /\ UNCHANGED <<args, argv, files, idx, warnings, services, mergeVars, focusVars,
                 fetchVars, installVars,
                 setupVars, proxyVars>>

\* main, terminal dashboard: the header, with the weather line when the
\* weather was fetched, is rendered for showGreeting && showAll.
MainHeader ==
  /\ pc = "dashboard"
  /\ ~args.json
  /\ config' = CompactApplied
  /\ defaults' = DefaultsAfterCompact
  /\ data' = fetchAllData(CompactApplied)
  /\ UNCHANGED shared
  /\ rendered' =
       IF Truthy(At(CompactApplied, <<"display", "showGreeting">>)) /\ showAll
       THEN IF data'.weather THEN <<"header", "weather">> ELSE <<"header">>
       ELSE <<>>
  /\ pc' = "quote"
  /\ UNCHANGED <<args, argv, files, idx, warnings, services, mergeVars, focusVars,
                 fetchVars, installVars,
                 setupVars, proxyVars>>

\* if (config.quote?.enabled && showAll && !config.display.compact) renderQuote
MainQuote ==
  /\ pc = "quote"
  /\ rendered' =
       IF /\ Truthy(At(config, <<"quote", "enabled">>))
          /\ showAll
          /\ ~Truthy(At(config, <<"display", "compact">>))
       THEN Append(rendered, "quote") ELSE rendered
  /\ pc' = "tasks"
  /\ UNCHANGED <<args, argv, files, idx, config, warnings, services, data,
                 defaults, shared, mergeVars, focusVars,
                 fetchVars, installVars,
                 setupVars, proxyVars>>

\* if (shouldShow('tasks')) renderTasks
MainTasks ==
  /\ pc = "tasks"
  /\ rendered' = IF shouldShow("tasks") THEN Append(rendered, "tasks")
                 ELSE rendered
  /\ pc' = "calendar"
  /\ UNCHANGED <<args, argv, files, idx, config, warnings, services, data,
                 defaults, shared, mergeVars, focusVars,
                 fetchVars, installVars,
                 setupVars, proxyVars>>

\* if (shouldShow('calendar')) renderCalendar
MainCalendar ==
  /\ pc = "calendar"
  /\ rendered' = IF shouldShow("calendar") THEN Append(rendered, "calendar")
                 ELSE rendered
  /\ pc' = "email"
  /\ UNCHANGED <<args, argv, files, idx, config, warnings, services, data,
                 defaults, shared, mergeVars, focusVars,
                 fetchVars, installVars,
                 setupVars, proxyVars>>

\* if (shouldShow('email')) renderEmails
MainEmail ==
  /\ pc = "email"
  /\ rendered' = IF shouldShow("email") THEN Append(rendered, "email")
                 ELSE rendered
  /\ pc' = "github"
  /\ UNCHANGED <<args, argv, files, idx, config, warnings, services, data,
                 defaults, shared, mergeVars, focusVars,
                 fetchVars, installVars,
                 setupVars, proxyVars>>

\* if (shouldShow('github') && data.github.length > 0) renderGitHub
MainGitHub ==
  /\ pc = "github"
  /\ rendered' = IF shouldShow("github") /\ data.github > 0
                 THEN Append(rendered, "github") ELSE rendered
  /\ pc' = "footer"
  /\ UNCHANGED <<args, argv, files, idx, config, warnings, services, data,
                 defaults, shared, mergeVars, focusVars,
                 fetchVars, installVars,
                 setupVars, proxyVars>>

\* if (config.display.showSummary && showAll) renderFooter
MainFooter ==
  /\ pc = "footer"
  /\ rendered' =
       IF Truthy(At(config, <<"display", "showSummary">>)) /\ showAll
       THEN Append(rendered, "footer") ELSE rendered
  /\ pc' = "done"
  /\ UNCHANGED <<args, argv, files, idx, config, warnings, services, data,
                 defaults, shared, mergeVars, focusVars,
                 fetchVars, installVars,
                 setupVars, proxyVars>>

NextRender ==
  \/ ParseSectionFlag
  \/ ParseSectionOption
  \/ ParseSectionOptionLast
  \/ ParseCompact
  \/ ParseJson
  \/ ParseOther
  \/ ParseReturn
  \/ MainJson
  \/ MainHeader
  \/ MainQuote
  \/ MainTasks
  \/ MainCalendar
  \/ MainEmail
  \/ MainGitHub
  \/ MainFooter

SpecRender == InitRender /\ [][NextRender]_vars

\* The sections the section flags name.
SectionNames == {"tasks", "calendar", "email", "weather", "github"}

\* The elements of a sequence.
Range(seq) == {seq[i] : i \in DOMAIN seq}

\* C20 as stated: when section flags are given, the terminal dashboard
\* renders exactly the named sections and no others (a section with nothing
\* to show - no weather fetched, no GitHub notification - aside); --weather
\* alone renders the weather.
C20_ExactlyNamedSections ==
  (pc = "done" /\ args.sections # <<>>) =>
    /\ Range(rendered) \subseteq Range(args.sections) \cap SectionNames
    /\ \A section \in Range(args.sections) \cap SectionNames :
         \/ section \in Range(rendered)
         \/ section = "weather" /\ ~data.weather
         \/ section = "github" /\ data.github = 0

\* A block and an event share an instant.
Overlaps(block, e) == block.start < e.end /\ e.start < block.end

\* C24 as stated: no returned block overlaps a timed event of the input
\* list, a meeting in progress at the current instant included.
C24_NoBlockOverEvent ==
  pc = "returned" =>
    \A i \in DOMAIN returned, k \in DOMAIN events :
      ~events[k].allDay => ~Overlaps(returned[i], events[k])

\* C26: every returned block starts at or after max(now, 09:00) and ends at
\* or before 18:00, whatever the events.
C26_BlocksInsideWindow ==
  pc = "returned" =>
    \A i \in DOMAIN returned :
      /\ returned[i].start >= (IF now > At_HMS(9, 0, 0) THEN now
                                ELSE At_HMS(9, 0, 0))
      /\ returned[i].end <= At_HMS(18, 0, 0)

\* now = 08:00 with 08:30-09:30 and 17:00-19:00: the one block is
\* [09:30, 17:00).
C26_Witness ==
  /\ pc = "returned"
  /\ now = At_HMS(8, 0, 0)
  /\ Len(events) = 2
  /\ events[1].start = At_HMS(8, 30, 0) /\ events[1].end = At_HMS(9, 30, 0)
  /\ events[2].start = At_HMS(17, 0, 0) /\ events[2].end = At_HMS(19, 0, 0)
  /\ returned = <<Block(At_HMS(9, 30, 0), At_HMS(17, 0, 0))>>

\* The box main renders for each section that has an enabled option.
SectionBox ==
  [gmail |-> "email", calendar |-> "calendar", todoist |-> "tasks",
   github |-> "github"]

\* C21 as stated: a section whose enabled option is false in the effective
\* configuration has no box in the terminal dashboard output.
C21_DisabledSectionNotRendered ==
  pc = "done" =>
    \A section \in DOMAIN SectionBox :
      ~Truthy(At(config, <<section, "enabled">>))
        => SectionBox[section] \notin Range(rendered)

\* C25 as stated: the built-in default document is never modified, whatever
\* file was loaded and whatever flags were given.
C25_DefaultsNeverModified == defaults = DEFAULT_CONFIG

(***************************************************************************)
(* fetchCalendarEvents: the source's answer is mapped and sorted.          *)
(***************************************************************************)
MaxRaw == 3

\* An event as the calendar source gives it: with start.dateTime (timed) or
\* with start.date only (all-day).
RawEvent(id, dateTime, start, end) ==
  [id |-> id, dateTime |-> dateTime, start |-> start, end |-> end]

RawPool ==
  {RawEvent("holiday", FALSE, 0, At_HMS(24, 0, 0)),
   RawEvent("offsite", FALSE, At_HMS(24, 0, 0), At_HMS(48, 0, 0)),
   RawEvent("standup", TRUE, At_HMS(9, 0, 0), At_HMS(9, 30, 0)),
   RawEvent("coffee", TRUE, At_HMS(9, 0, 0), At_HMS(9, 15, 0)),
   RawEvent("review", TRUE, At_HMS(10, 0, 0), At_HMS(11, 0, 0))}

\* What the source answers: a JSON array of events, or something else.
RawAnswers ==
  {[isArray |-> FALSE, items |-> <<>>]}
    \cup {[isArray |-> TRUE, items |-> items] :
            items \in UNION {[1..n -> RawPool] : n \in 0..MaxRaw}}

\* The configurations fetchCalendarEvents is called with.
CalendarConfigs ==
  {DEFAULT_CONFIG, deepMerge(DEFAULT_CONFIG, Obj([calendar |-> Disabled]))}

InitCalendar ==
  /\ pc = "fetchCalendarEvents"
  /\ rawEvents \in RawAnswers
  /\ config \in CalendarConfigs
  /\ events = <<>>
  /\ now = 0 /\ todayEvents = <<>> /\ currentTime = 0
  /\ focusBlocks = <<>> /\ returned = <<>>
  /\ args = <<>> /\ files = <<>> /\ idx = 0 /\ warnings = {}
  /\ version = "" /\ sources = <<>> /\ taskData = <<>> /\ sorted = <<>>
  /\ MergeIdle
  /\ RenderIdle
  /\ InstallIdle
  /\ SetupIdle
  /\ ProxyIdle

\* .map(e => ({ id, start: e.start?.dateTime || e.start?.date, ...,
\*              allDay: !e.start?.dateTime }))
MapEvent(e) ==
  [id |-> e.id, start |-> e.start, end |-> e.end, allDay |-> ~e.dateTime]

\* .sort((a, b) => ...): a stable sort under the comparator FetchBefore.
RECURSIVE SortEvents(_)
SortEvents(evs) ==
  IF evs = <<>> THEN <<>>
  ELSE LET n == Len(evs)
           front == SortEvents(SubSeq(evs, 1, n - 1))
           keep == Cardinality({i \in DOMAIN front :
                                  ~FetchBefore(evs[n], front[i])})
       IN SubSeq(front, 1, keep) \o <<evs[n]>>
            \o SubSeq(front, keep + 1, Len(front))

\* if (!config.calendar?.enabled) return []
FetchCalendarDisabled ==
  /\ pc = "fetchCalendarEvents"
  /\ ~Truthy(At(config, <<"calendar", "enabled">>))
  /\ events' = <<>>
  /\ pc' = "fetched"
  /\ UNCHANGED <<rawEvents, config, args, files, idx, warnings, now,
                 todayEvents, currentTime, focusBlocks, returned, version,
                 sources, taskData, sorted, mergeVars, renderVars,
                 installVars,
                 setupVars, proxyVars>>

\* if (!events || !Array.isArray(events)) return []
FetchCalendarNoArray ==
  /\ pc = "fetchCalendarEvents"
  /\ Truthy(At(config, <<"calendar", "enabled">>))
  /\ ~rawEvents.isArray
  /\ events' = <<>>
  /\ pc' = "fetched"
  /\ UNCHANGED <<rawEvents, config, args, files, idx, warnings, now,
                 todayEvents, currentTime, focusBlocks, returned, version,
                 sources, taskData, sorted, mergeVars, renderVars,
                 installVars,
                 setupVars, proxyVars>>

\* return events.map(...).sort(...)
FetchCalendarSorted ==
  /\ pc = "fetchCalendarEvents"
  /\ Truthy(At(config, <<"calendar", "enabled">>))
  /\ rawEvents.isArray
  /\ events' = SortEvents([i \in DOMAIN rawEvents.items |->
                             MapEvent(rawEvents.items[i])])
  /\ pc' = "fetched"
  /\ UNCHANGED <<rawEvents, config, args, files, idx, warnings, now,
                 todayEvents, currentTime, focusBlocks, returned, version,
                 sources, taskData, sorted, mergeVars, renderVars,
                 installVars,
                 setupVars, proxyVars>>

NextCalendar ==
  \/ FetchCalendarDisabled
  \/ FetchCalendarNoArray
  \/ FetchCalendarSorted

SpecCalendar == InitCalendar /\ [][NextCalendar]_vars

\* How many times x occurs in a sequence.
Count(x, seq) == Cardinality({i \in DOMAIN seq : seq[i] = x})

\* C30: fetchCalendarEvents returns every all-day event before every timed
\* event and the timed events in non-decreasing start order, and what it
\* returns are the source's events, each as often as the source gave it.
C30_AllDayFirstThenByStart ==
  pc = "fetched" =>
    /\ \A i \in DOMAIN events, j \in DOMAIN events :
         i < j =>
           /\ ~(events[j].allDay /\ ~events[i].allDay)
           /\ (~events[i].allDay /\ ~events[j].allDay)
                => events[i].start <= events[j].start
    /\ (Truthy(At(config, <<"calendar", "enabled">>)) /\ rawEvents.isArray) =>
         /\ Len(events) = Len(rawEvents.items)
         /\ \A k \in DOMAIN rawEvents.items :
              Count(MapEvent(rawEvents.items[k]), events)
                = Count(rawEvents.items[k], rawEvents.items)

\* The source answers review, offsite, standup: the result is offsite
\* (all-day), standup 09:00, review 10:00.
C30_Witness ==
  /\ pc = "fetched"
  /\ Len(rawEvents.items) = 3
  /\ rawEvents.items[1].id = "review"
  /\ rawEvents.items[2].id = "offsite"
  /\ rawEvents.items[3].id = "standup"
  /\ Len(events) = 3
  /\ events[1].id = "offsite" /\ events[1].allDay
  /\ events[2].id = "standup" /\ events[3].id = "review"

(***************************************************************************)
(* fetchTasks and the sort of renderTasks, in the three versions of the    *)
(* program: 1.0 (dashboard.js: today and overdue sources, deduplicated and *)
(* sorted by fetchTasks), 2.1 (today, overdue and upcoming sources,        *)
(* deduplicated; renderTasks sorts) and 2.2 (one list of all tasks, split  *)
(* by due date; renderTasks sorts).                                        *)
(***************************************************************************)
MaxTasks == 2
MaxUpcoming == 1

\* A task as a source gives it: priority 0 stands for no priority, due is
\* the due date in days from today.
RawTask(id, priority, due) == [id |-> id, priority |-> priority, due |-> due]

TaskPool ==
  {RawTask(1, 4, -1), RawTask(2, 0, 0), RawTask(3, 3, 0), RawTask(4, 2, 1)}

TaskLists(n) == UNION {[1..k -> TaskPool] : k \in 0..n}

Versions == {"1.0", "2.1", "2.2"}

\* The configurations fetchTasks is called with.
TaskConfigs ==
  {DEFAULT_CONFIG, deepMerge(DEFAULT_CONFIG, Obj([todoist |-> Disabled]))}

\* What the sources answer: 1.0 and 2.1 ask the CLI for today and overdue
\* (2.1 also for upcoming), 2.2 asks the API for all tasks and needs a token.
SourceAnswers(v) ==
  CASE v = "1.0" ->
         [today : TaskLists(MaxTasks), overdue : TaskLists(MaxTasks),
          upcoming : {<<>>}, all : {<<>>}, token : {TRUE}]
    [] v = "2.1" ->
         [today : TaskLists(MaxTasks), overdue : TaskLists(MaxTasks),
          upcoming : TaskLists(MaxUpcoming), all : {<<>>}, token : {TRUE}]
    [] v = "2.2" ->
         [today : {<<>>}, overdue : {<<>>}, upcoming : {<<>>},
          all : TaskLists(MaxTasks), token : BOOLEAN]

InitTasks ==
  /\ pc = "fetchTasks"
  /\ version \in Versions
  /\ sources \in SourceAnswers(version)
  /\ config \in (IF version = "1.0" THEN {DEFAULT_CONFIG} ELSE TaskConfigs)
  /\ taskData = [overdue |-> <<>>, today |-> <<>>, upcoming |-> <<>>]
  /\ sorted = <<>>
  /\ rawEvents = <<>>
  /\ args = <<>> /\ files = <<>> /\ idx = 0 /\ warnings = {}
  /\ MergeIdle
  /\ FocusIdle
  /\ RenderIdle
  /\ InstallIdle
  /\ SetupIdle
  /\ ProxyIdle

\* mapTask: priority: t.priority || 1
MapTask(t, isOverdue) ==
  [id |-> t.id, priority |-> IF t.priority = 0 THEN 1 ELSE t.priority,
   due |-> t.due, isOverdue |-> isOverdue]

RECURSIVE Dedup(_, _, _)

\* Mutant: every task is kept, seen or not.
DedupNone(tasks, seen, isOverdue) ==
  [result |-> [i \in DOMAIN tasks |-> MapTask(tasks[i], isOverdue)],
   seen |-> seen \cup {tasks[i].id : i \in DOMAIN tasks}]

\* for (const t of tasks) if (!seen.has(t.id)) { seen.add(t.id); push }:
\* the tasks kept and the ids seen afterwards.
Dedup(tasks, seen, isOverdue) ==
  IF tasks = <<>> THEN [result |-> <<>>, seen |-> seen]
  ELSE LET t == Head(tasks)
           rest == Dedup(Tail(tasks), seen \cup {t.id}, isOverdue)
       IN  IF t.id \in seen THEN rest
           ELSE [result |-> <<MapTask(t, isOverdue)>> \o rest.result,
                 seen |-> rest.seen]

\* Mutant: lower priority first.
TaskBeforeAscending(a, b) ==
  \/ a.isOverdue /\ ~b.isOverdue
  \/ a.isOverdue = b.isOverdue /\ a.priority < b.priority

\* The comparator is negative: overdue first, then b.priority - a.priority.
TaskBefore(a, b) ==
  \/ a.isOverdue /\ ~b.isOverdue
  \/ a.isOverdue = b.isOverdue /\ b.priority - a.priority < 0

\* allTasks.sort((a, b) => ...): a stable sort under TaskBefore.
RECURSIVE SortTasks(_)
SortTasks(tasks) ==
  IF tasks = <<>> THEN <<>>
  ELSE LET n == Len(tasks)
           front == SortTasks(SubSeq(tasks, 1, n - 1))
           keep == Cardinality({i \in DOMAIN front :
                                  ~TaskBefore(tasks[n], front[i])})
       IN SubSeq(front, 1, keep) \o <<tasks[n]>>
            \o SubSeq(front, keep + 1, Len(front))

\* 1.0: [...overdueTasks, ...todayTasks] deduplicated, isOverdue from the
\* overdue source, sorted and returned.
FetchTasksV10 ==
  /\ pc = "fetchTasks"
  /\ version = "1.0"
  /\ LET kept == Dedup(sources.overdue \o sources.today, {}, FALSE).result
         marked == [i \in DOMAIN kept |->
                      [kept[i] EXCEPT !.isOverdue =
                         \E k \in DOMAIN sources.overdue :
                           sources.overdue[k].id = kept[i].id]]
     IN  /\ taskData' = [overdue |-> SelectSeq(SortTasks(marked),
                                                LAMBDA t : t.isOverdue),
                         today |-> SelectSeq(SortTasks(marked),
                                              LAMBDA t : ~t.isOverdue),
                         upcoming |-> <<>>]
         /\ sorted' = SortTasks(marked)
  /\ pc' = "done"
  /\ UNCHANGED <<version, sources, rawEvents, config, args, files, idx,
                 warnings, mergeVars, focusVars, renderVars,
                 installVars,
                 setupVars, proxyVars>>

\* 2.1 and 2.2: if (!config.todoist.enabled) return empty lists; 2.2 also
\* without a token.
FetchTasksNone ==
  /\ pc = "fetchTasks"
  /\ version \in {"2.1", "2.2"}
  /\ \/ ~Truthy(At(config, <<"todoist", "enabled">>))
     \/ version = "2.2" /\ ~sources.token
  /\ taskData' = [overdue |-> <<>>, today |-> <<>>, upcoming |-> <<>>]
  /\ pc' = "renderTasks"
  /\ UNCHANGED <<version, sources, sorted, rawEvents, config, args, files,
                 idx, warnings, mergeVars, focusVars, renderVars,
                 installVars,
                 setupVars, proxyVars>>

\* 2.1: overdue, today and upcoming deduplicated in that order with one
\* seen set; upcoming keeps tasks without a due date or due after today.
FetchTasksV21 ==
  /\ pc = "fetchTasks"
  /\ version = "2.1"
  /\ Truthy(At(config, <<"todoist", "enabled">>))
  /\ LET overdue == Dedup(sources.overdue, {}, TRUE)
         today == Dedup(sources.today, overdue.seen, FALSE)
         later == SelectSeq(IF Truthy(At(config, <<"todoist", "showUpcoming">>))
                            THEN sources.upcoming ELSE <<>>,
                            LAMBDA t : t.due > 0)
         upcoming == Dedup(later, today.seen, FALSE)
     IN  taskData' = [overdue |-> overdue.result, today |-> today.result,
                      upcoming |-> upcoming.result]
  /\ pc' = "renderTasks"
  /\ UNCHANGED <<version, sources, sorted, rawEvents, config, args, files,
                 idx, warnings, mergeVars, focusVars, renderVars,
                 installVars,
                 setupVars, proxyVars>>

\* .slice(0, 10) of the upcoming tasks in 2.2
UpcomingKept == 10

\* 2.2: the one list is split by due date: before today, today, after today.
FetchTasksV22 ==
  /\ pc = "fetchTasks"
  /\ version = "2.2"
  /\ Truthy(At(config, <<"todoist", "enabled">>))
  /\ sources.token
  /\ LET mapped(tasks) == [i \in DOMAIN tasks |->
                             MapTask(tasks[i], tasks[i].due < 0)]
     IN  taskData' =
           [overdue |-> mapped(SelectSeq(sources.all, LAMBDA t : t.due < 0)),
            today |-> mapped(SelectSeq(sources.all, LAMBDA t : t.due = 0)),
            upcoming |->
              IF Truthy(At(config, <<"todoist", "showUpcoming">>))
              THEN LET later == mapped(SelectSeq(sources.all,
                                                  LAMBDA t : t.due > 0))
                   IN  SubSeq(later, 1, IF Len(later) < UpcomingKept
                                        THEN Len(later) ELSE UpcomingKept)
              ELSE <<>>]
  /\ pc' = "renderTasks"
  /\ UNCHANGED <<version, sources, sorted, rawEvents, config, args, files,
                 idx, warnings, mergeVars, focusVars, renderVars,
                 installVars,
                 setupVars, proxyVars>>

\* renderTasks: allTasks = [...overdue, ...today] is sorted for display.
RenderTasksSort ==
  /\ pc = "renderTasks"
  /\ sorted' = SortTasks(taskData.overdue \o taskData.today)
  /\ pc' = "done"
  /\ UNCHANGED <<version, sources, taskData, rawEvents, config, args, files,
                 idx, warnings, mergeVars, focusVars, renderVars,
                 installVars,
                 setupVars, proxyVars>>

NextTasks ==
  \/ FetchTasksV10
  \/ FetchTasksNone
  \/ FetchTasksV21
  \/ FetchTasksV22
  \/ RenderTasksSort

SpecTasks == InitTasks /\ [][NextTasks]_vars

AllReturned == taskData.overdue \o taskData.today \o taskData.upcoming

\* The ids a source list holds.
IdsOf(tasks) == {tasks[i].id : i \in DOMAIN tasks}

\* C29: in 1.0 and 2.1, no task id is returned twice across overdue, today
\* and upcoming; every task of the overdue or today source is returned once,
\* and a task in both sources is marked overdue.
C29_NoDuplicateTaskId ==
  (pc \in {"renderTasks", "done"} /\ version \in {"1.0", "2.1"}) =>
    /\ \A i \in DOMAIN AllReturned, j \in DOMAIN AllReturned :
         AllReturned[i].id = AllReturned[j].id => i = j
    /\ Truthy(At(config, <<"todoist", "enabled">>)) =>
         \A id \in IdsOf(sources.overdue) \cup IdsOf(sources.today) :
           \E i \in DOMAIN AllReturned :
             /\ AllReturned[i].id = id
             /\ AllReturned[i].isOverdue <=> id \in IdsOf(sources.overdue)

\* 2.1: task 1 is in the overdue and in the today source, and task 2 in
\* today: task 1 is returned once, as overdue.
C29_Witness ==
  /\ pc = "renderTasks"
  /\ version = "2.1"
  /\ IdsOf(sources.overdue) = {1}
  /\ IdsOf(sources.today) = {1, 2}
  /\ Len(taskData.overdue) = 1 /\ taskData.overdue[1].id = 1
  /\ taskData.overdue[1].isOverdue
  /\ Len(taskData.today) = 1 /\ taskData.today[1].id = 2

(***************************************************************************)
(* install.sh: the alias step and the config copy, run again and again.    *)
(* A line of an rc file is a sequence of characters.                       *)
(***************************************************************************)
MaxLines == 1
MaxRuns == 2

\* grep's pattern: alias mdash=
AliasPattern == <<"a", "l", "i", "a", "s", " ", "m", "d", "a", "s", "h", "=">>

\* alias_line="alias mdash=\"$DASHBOARD_PATH\"", with the path written p
AliasLine == AliasPattern \o <<"\"", "p", "\"">>

\* echo "# Morning Dashboard"
CommentLine == <<"#", " ", "M", "D">>

\* The lines an rc file may hold before the first run: another alias, an
\* mdash alias to another path, an export.
RcLines ==
  {<<"a", "l", "i", "a", "s", " ", "l", "l", "=", "l", "s">>,
   AliasPattern \o <<"\"", "q", "\"">>,
   <<"e", "x", "p", "o", "r", "t">>}

\* There is no such file.
NoFile == [exists |-> FALSE, lines |-> <<>>]

RcContents ==
  {NoFile} \cup {[exists |-> TRUE, lines |-> lines] :
                   lines \in UNION {[1..n -> RcLines] : n \in 0..MaxLines}}

\* The rc files add_alias is tried on, in order.
RcOrder == <<"zshrc", "bashrc", "bash_profile">>

\* What config.json holds: nothing, the user's own settings, or the copy of
\* config.example.json.
ConfigContents == {"absent", "user", "example"}

InitInstall ==
  /\ pc = "add_alias"
  /\ rcFiles \in [{"zshrc", "bashrc", "bash_profile"} -> RcContents]
  /\ configFile \in {"absent", "user"}
  /\ rcIndex = 1
  /\ runs = 0
  /\ history = <<>>
  /\ args = <<>> /\ files = <<>> /\ idx = 0 /\ config = Undefined
  /\ warnings = {}
  /\ MergeIdle
  /\ FocusIdle
  /\ RenderIdle
  /\ FetchIdle
  /\ SetupIdle
  /\ ProxyIdle

\* The pattern occurs in the line at some position.
Contains(line, pattern) ==
  \E at \in 0..(Len(line) - Len(pattern)) :
    \A k \in 1..Len(pattern) : line[at + k] = pattern[k]

\* Mutant: grep never finds the alias.
HasAliasNever(file) == FALSE

\* grep -q "alias mdash=" "$rc_file"
HasAlias(file) ==
  \E i \in DOMAIN file.lines : Contains(file.lines[i], AliasPattern)

\* add_alias on a file that does not exist: return 1, the next file is tried.
AddAliasNoFile ==
  /\ pc = "add_alias"
  /\ rcIndex <= Len(RcOrder)
  /\ ~rcFiles[RcOrder[rcIndex]].exists
  /\ rcIndex' = rcIndex + 1
  /\ UNCHANGED <<pc, rcFiles, configFile, runs, history, mergeVars,
                 configVars, focusVars, renderVars, fetchVars,
                 setupVars, proxyVars>>

\* add_alias on a file that has the alias: nothing is appended, return 0.
AddAliasExists ==
  /\ pc = "add_alias"
  /\ rcIndex <= Len(RcOrder)
  /\ rcFiles[RcOrder[rcIndex]].exists
  /\ HasAlias(rcFiles[RcOrder[rcIndex]])
  /\ pc' = "config"
  /\ UNCHANGED <<rcFiles, configFile, rcIndex, runs, history, mergeVars,
                 configVars, focusVars, renderVars, fetchVars,
                 setupVars, proxyVars>>

\* add_alias on a file without the alias: an empty line, the comment and
\* the alias line are appended, return 0.
AddAliasAppend ==
  /\ pc = "add_alias"
  /\ rcIndex <= Len(RcOrder)
  /\ rcFiles[RcOrder[rcIndex]].exists
  /\ ~HasAlias(rcFiles[RcOrder[rcIndex]])
  /\ rcFiles' = [rcFiles EXCEPT ![RcOrder[rcIndex]].lines =
                   @ \o <<<<>>, CommentLine, AliasLine>>]
  /\ pc' = "config"
  /\ UNCHANGED <<configFile, rcIndex, runs, history, mergeVars, configVars,
                 focusVars, renderVars, fetchVars,
                 setupVars, proxyVars>>

\* No rc file exists: the alias is only printed.
AddAliasNowhere ==
  /\ pc = "add_alias"
  /\ rcIndex > Len(RcOrder)
  /\ pc' = "config"
  /\ UNCHANGED <<rcFiles, configFile, rcIndex, runs, history, mergeVars,
                 configVars, focusVars, renderVars, fetchVars,
                 setupVars, proxyVars>>

\* if [ ! -f config.json ]; then cp config.example.json config.json; the
\* run is finished.
ConfigCopy ==
  /\ pc = "config"
  /\ configFile = "absent"
  /\ configFile' = "example"
  /\ runs' = runs + 1
  /\ history' = Append(history, [rc |-> rcFiles, config |-> "example"])
  /\ pc' = "installed"
  /\ UNCHANGED <<rcFiles, rcIndex, mergeVars, configVars, focusVars,
                 renderVars, fetchVars,
                 setupVars, proxyVars>>

\* else: the config file already exists; the run is finished.
ConfigKeep ==
  /\ pc = "config"
  /\ configFile # "absent"
  /\ runs' = runs + 1
  /\ history' = Append(history, [rc |-> rcFiles, config |-> configFile])
  /\ pc' = "installed"
  /\ UNCHANGED <<rcFiles, configFile, rcIndex, mergeVars, configVars,
                 focusVars, renderVars, fetchVars,
                 setupVars, proxyVars>>

\* ./install.sh is run once more.
InstallAgain ==
  /\ pc = "installed"
  /\ runs < MaxRuns
  /\ rcIndex' = 1
  /\ pc' = "add_alias"
  /\ UNCHANGED <<rcFiles, configFile, runs, history, mergeVars, configVars,
                 focusVars, renderVars, fetchVars,
                 setupVars, proxyVars>>

NextInstall ==
  \/ AddAliasNoFile
  \/ AddAliasExists
  \/ AddAliasAppend
  \/ AddAliasNowhere
  \/ ConfigCopy
  \/ ConfigKeep
  \/ InstallAgain

SpecInstall == InitInstall /\ [][NextInstall]_vars

\* How many lines of a file hold an mdash alias.
AliasLines(file) ==
  Cardinality({i \in DOMAIN file.lines :
                 Contains(file.lines[i], AliasPattern)})

\* C23: after the first run, every further run leaves the rc files and the
\* config file as the first run left them; a run never adds an alias line to
\* a file that has one, so a file that started without one holds at most
\* one; and a config.json that exists is never overwritten.
C23_InstallIdempotent ==
  /\ [](\A i \in DOMAIN history : history[i] = history[1])
  /\ [][/\ \A f \in DOMAIN rcFiles :
             /\ AliasLines(rcFiles'[f]) <= AliasLines(rcFiles[f]) + 1
             /\ AliasLines(rcFiles[f]) >= 1 => rcFiles'[f] = rcFiles[f]
        /\ configFile # "absent" => configFile' = configFile]_vars

\* Two runs have finished on a .zshrc that had one export line and no
\* alias: it holds exactly one alias line, and the user's config is kept.
C23_Witness ==
  /\ pc = "installed"
  /\ runs = 2
  /\ Len(rcFiles["zshrc"].lines) = 4
  /\ rcFiles["zshrc"].lines[4] = AliasLine
  /\ AliasLines(rcFiles["zshrc"]) = 1
  /\ configFile = "user"
  /\ history[2] = history[1]

\* ---------------------------------------------------------------------------
\* mdash setup todoist: runSetupTodoist and saveConfig.
\* ---------------------------------------------------------------------------

\* What may be typed at the token prompt (already trimmed): nothing, or one
\* of two tokens.
Tokens == {<<>>, <<"a">>, <<"b">>}

\* What the projects request yields after parseJSON: an array, a JSON error
\* object, or null when curl failed or printed no JSON.
ApiAnswers == {"array", "error", "null"}

\* The documents of the configuration file setup starts with: no section, a
\* todoist section with or without a token, and a todoist key that holds
\* null or true instead of a mapping.
SetupDocs ==
  {EmptyObject,
   Obj([todoist |-> Obj([apiToken |-> Str(<<"b">>)])]),
   Obj([todoist |-> Disabled]),
   Obj([todoist |-> Null]),
   Obj([todoist |-> Bool(TRUE)]),
   Obj([quote |-> Disabled])}

SetupFiles == {Missing} \cup {Parsed(doc) : doc \in SetupDocs}

InitSetup ==
  /\ pc = "runSetupTodoist"
  /\ token \in Tokens
  /\ apiAnswer \in ApiAnswers
  /\ \E file \in SetupFiles :
       /\ files = [l \in Locations |->
                     IF l = "CONFIG_PATH" THEN file ELSE Missing]
       /\ config = Loaded(file)
       /\ shared = SharedAfterLoad(file)
  /\ defaults = DEFAULT_CONFIG
  /\ args = <<>> /\ idx = 0 /\ warnings = {}
  /\ argv = <<>> /\ data = [weather |-> FALSE, github |-> 0] /\ rendered = <<>>
  /\ services = [weather |-> FALSE, github |-> 0]
  /\ MergeIdle
  /\ FocusIdle
  /\ FetchIdle
  /\ InstallIdle
  /\ ProxyIdle

\* config.todoist?.apiToken
ConfiguredToken == At(config, <<"todoist", "apiToken">>)

\* status.working and the answer to 'Reconfigure?' is not y: return.
SetupKeep ==
  /\ pc = "runSetupTodoist"
  /\ Truthy(ConfiguredToken)
  /\ pc' = "exit"
  /\ UNCHANGED <<configVars, renderVars, setupVars,
                 mergeVars, focusVars, fetchVars, installVars, proxyVars>>

\* Todoist is not working yet, or is to be reconfigured: the token is asked
\* for.
SetupAsk ==
  /\ pc = "runSetupTodoist"
  /\ pc' = "prompt"
  /\ UNCHANGED <<configVars, renderVars, setupVars,
                 mergeVars, focusVars, fetchVars, installVars, proxyVars>>

\* if (!token) return
SetupNoToken ==
  /\ pc = "prompt"
  /\ token = <<>>
  /\ pc' = "exit"
  /\ UNCHANGED <<configVars, renderVars, setupVars,
                 mergeVars, focusVars, fetchVars, installVars, proxyVars>>

\* The token is sent to the projects endpoint.
SetupVerify ==
  /\ pc = "prompt"
  /\ token # <<>>
  /\ pc' = "verify"
  /\ UNCHANGED <<configVars, renderVars, setupVars,
                 mergeVars, focusVars, fetchVars, installVars, proxyVars>>

\* if (!Array.isArray(data)) return
SetupInvalid ==
  /\ pc = "verify"
  /\ apiAnswer # "array"
  /\ pc' = "exit"
  /\ UNCHANGED <<configVars, renderVars, setupVars,
                 mergeVars, focusVars, fetchVars, installVars, proxyVars>>

\* obj[key] = value in non-strict code: set on an object, silently dropped
\* when obj is a primitive.
Assign(obj, key, value) ==
  IF obj.k = "object" THEN SetProp(obj, key, value) ELSE obj

\* config.todoist = config.todoist || {}; .apiToken = token; .enabled = true
TodoistAfterSave(section) ==
  Assign(Assign(IF Truthy(section) THEN section ELSE EmptyObject,
                "apiToken", Str(token)),
         "enabled", Bool(TRUE))

RECURSIVE Stringified(_)
\* JSON.parse(JSON.stringify(v)): what a later read of the written file
\* yields; properties holding undefined are left out.
Stringified(v) ==
  IF v.k = "object"
  THEN Obj([key \in {name \in DOMAIN v.o : v.o[name].k # "undefined"} |->
              Stringified(v.o[key])])
  ELSE v

\* The token was accepted: it is stored in config and the file is written.
\* When config.todoist is DEFAULT_CONFIG's own section the two assignments
\* land in that object too.
SetupSave ==
  /\ pc = "verify"
  /\ apiAnswer = "array"
  /\ config' = SetProp(config, "todoist",
                       TodoistAfterSave(Get(config, "todoist")))
  /\ defaults' = IF "todoist" \in shared
                 THEN SetProp(defaults, "todoist",
                              TodoistAfterSave(Get(defaults, "todoist")))
                 ELSE defaults
  /\ files' = [files EXCEPT !["CONFIG_PATH"] = Parsed(Stringified(config'))]
  /\ pc' = "exit"
  /\ UNCHANGED <<args, idx, warnings, argv, services, data, rendered, shared,
                 setupVars,
                 mergeVars, focusVars, fetchVars, installVars, proxyVars>>

NextSetup ==
  \/ SetupKeep
  \/ SetupAsk
  \/ SetupNoToken
  \/ SetupVerify
  \/ SetupInvalid
  \/ SetupSave

SpecSetup == InitSetup /\ [][NextSetup]_vars

\* The step in which verification has succeeded.
VerificationSucceeded == pc = "verify" /\ apiAnswer = "array"

\* The token in the configuration file, as a later load reads it.
SavedToken(fs) == At(fs["CONFIG_PATH"].doc, <<"todoist", "apiToken">>)

\* C27 as stated: a step of runSetupTodoist other than the one after a
\* successful verification changes neither the config file nor the
\* in-memory todoist.apiToken, and the step after a successful verification
\* leaves a saved config whose todoist.apiToken is the entered token and
\* whose todoist.enabled is true.
C27_TokenOnlyAfterVerification ==
  [][/\ ~VerificationSucceeded =>
          /\ files' = files
          /\ At(config', <<"todoist", "apiToken">>) = ConfiguredToken
     /\ VerificationSucceeded =>
          /\ files'["CONFIG_PATH"].parses
          /\ SavedToken(files') = Str(token)
          /\ At(files'["CONFIG_PATH"].doc, <<"todoist", "enabled">>)
               = Bool(TRUE)]_vars

\* C27, the part that holds: no step before a successful verification
\* touches the file or the token, and after one the token and enabled = true
\* are saved whenever config.todoist was a mapping, missing or null.
C27_SavedWhenSectionIsMapping ==
  [][/\ ~VerificationSucceeded =>
          /\ files' = files
          /\ At(config', <<"todoist", "apiToken">>) = ConfiguredToken
     /\ (VerificationSucceeded
           /\ Get(config, "todoist").k \in {"object", "undefined", "null"}) =>
          /\ files'["CONFIG_PATH"].parses
          /\ SavedToken(files') = Str(token)
          /\ At(files'["CONFIG_PATH"].doc, <<"todoist", "enabled">>)
               = Bool(TRUE)]_vars

\* A token was accepted and saved over a file that had another one.
C27_Witness ==
  /\ pc = "exit"
  /\ token = <<"a">>
  /\ apiAnswer = "array"
  /\ SavedToken(files) = Str(<<"a">>)
  /\ At(defaults, <<"todoist", "apiToken">>) = Str(<<>>)

\* The file said "todoist": true, the token was accepted, and the written
\* file holds no token.
C27_PrimitiveSection ==
  /\ pc = "exit"
  /\ apiAnswer = "array"
  /\ files["CONFIG_PATH"].parses
  /\ Get(files["CONFIG_PATH"].doc, "todoist") = Bool(TRUE)
  /\ SavedToken(files) = Undefined

\* ---------------------------------------------------------------------------
\* The gog proxy (getEmails, getCalendar) beside the dashboard's fetchers.
\* ---------------------------------------------------------------------------

\* getEmails: let config = { gmail: {...}, google: {...} }
ProxyEmailDefaults ==
  Obj([gmail |-> Obj([query |-> Str(<<"i", "s", ":", "u", "n", "r", "e", "a", "d", " ", "n", "e", "w", "e", "r", "_", "t", "h", "a", "n", ":", "3", "d">>),
                      maxEmails |-> Num(10)]),
       google |-> Obj([account |-> Str(<<>>)])])

\* getCalendar: let config = { calendar: {...}, google: {...} }
ProxyCalendarDefaults ==
  Obj([calendar |-> Obj([id |-> Str(<<"p", "r", "i", "m", "a", "r", "y">>),
                         lookaheadDays |-> Num(7)]),
       google |-> Obj([account |-> Str(<<>>)])])

\* The documents ~/.config/morning-dashboard/config.json may hold: nothing
\* set, a gmail or calendar section setting some of its keys or all of them,
\* and a section switched off.
ProxyDocs ==
  {EmptyObject,
   Obj([gmail |-> Obj([query |-> Str(<<"q">>)])]),
   Obj([gmail |-> Obj([maxEmails |-> Num(5)])]),
   Obj([gmail |-> Obj([query |-> Str(<<"q">>), maxEmails |-> Num(5)])]),
   Obj([gmail |-> Disabled]),
   Obj([calendar |-> Obj([id |-> Str(<<"w">>)])]),
   Obj([calendar |-> Obj([lookaheadDays |-> Num(3)])]),
   Obj([calendar |-> Obj([id |-> Str(<<>>)])]),
   Obj([calendar |-> Disabled])}

ProxyFiles == {Missing, Malformed} \cup {Parsed(doc) : doc \in ProxyDocs}

\* loadConfig with only CONFIG_PATH present: the file merged over the
\* defaults, or the defaults when it is missing or does not parse.
LoadedOrDefault(file) ==
  IF file.exists /\ file.parses THEN deepMerge(DEFAULT_CONFIG, file.doc)
  ELSE DEFAULT_CONFIG

InitProxy ==
  /\ pc = "google"
  /\ \E file \in ProxyFiles :
       /\ files = [l \in Locations |->
                     IF l = "CONFIG_PATH" THEN file ELSE Missing]
       /\ config = LoadedOrDefault(file)
  /\ proxyEmails = <<>> /\ proxyCalendar = <<>>
  /\ dashEmails = <<>> /\ dashCalendar = <<>>
  /\ args = <<>> /\ idx = 0 /\ warnings = {}
  /\ MergeIdle
  /\ FocusIdle
  /\ RenderIdle
  /\ FetchIdle
  /\ InstallIdle
  /\ SetupIdle

\* try { config = { ...config, ...JSON.parse(readFileSync(configPath)) } }
\* catch {}: each top-level key of the file replaces the initial one whole.
ProxyConfig(initial) ==
  LET file == files["CONFIG_PATH"]
  IN IF file.exists /\ file.parses
     THEN Obj([key \in DOMAIN initial.o \cup ObjectKeys(file.doc) |->
                 IF key \in ObjectKeys(file.doc) THEN Get(file.doc, key)
                 ELSE initial.o[key]])
     ELSE initial

\* `${v}` inside a template literal: the text the command line receives.
InTemplate(v) ==
  CASE v.k = "string" -> v.c
    [] v.k = "number" -> <<v.s>>
    [] v.k = "undefined" -> <<"u", "n", "d", "e", "f", "i", "n", "e", "d">>
    [] OTHER -> <<v.k>>

\* getEmails: gog gmail search '${config.gmail.query}' --max
\* ${config.gmail.maxEmails}
ProxyGetEmails ==
  /\ pc = "google"
  /\ proxyEmails = <<>>
  /\ LET cfg == ProxyConfig(ProxyEmailDefaults)
     IN proxyEmails' = <<"gog", InTemplate(At(cfg, <<"gmail", "query">>)),
                         InTemplate(At(cfg, <<"gmail", "maxEmails">>))>>
  /\ UNCHANGED <<pc, configVars, proxyCalendar, dashEmails, dashCalendar,
                 mergeVars, focusVars, renderVars, fetchVars, installVars,
                 setupVars>>

\* getCalendar: gog calendar events ${config.calendar.id || 'primary'}
ProxyGetCalendar ==
  /\ pc = "google"
  /\ proxyCalendar = <<>>
  /\ LET cfg == ProxyConfig(ProxyCalendarDefaults)
         id == At(cfg, <<"calendar", "id">>)
     IN proxyCalendar' =
          <<"gog", InTemplate(IF Truthy(id) THEN id
                              ELSE Str(<<"p", "r", "i", "m", "a", "r", "y">>))>>
  /\ UNCHANGED <<pc, configVars, proxyEmails, dashEmails, dashCalendar,
                 mergeVars, focusVars, renderVars, fetchVars, installVars,
                 setupVars>>

\* fetchEmails: if (!config.gmail?.enabled) return []
FetchEmailsDisabled ==
  /\ pc = "google"
  /\ dashEmails = <<>>
  /\ ~Truthy(At(config, <<"gmail", "enabled">>))
  /\ dashEmails' = <<"return">>
  /\ UNCHANGED <<pc, configVars, proxyEmails, proxyCalendar, dashCalendar,
                 mergeVars, focusVars, renderVars, fetchVars, installVars,
                 setupVars>>

\* fetchEmails: gog gmail search '${config.gmail.query}' --max
\* ${config.gmail.maxEmails}
FetchEmails ==
  /\ pc = "google"
  /\ dashEmails = <<>>
  /\ Truthy(At(config, <<"gmail", "enabled">>))
  /\ dashEmails' = <<"gog", InTemplate(At(config, <<"gmail", "query">>)),
                     InTemplate(At(config, <<"gmail", "maxEmails">>))>>
  /\ UNCHANGED <<pc, configVars, proxyEmails, proxyCalendar, dashCalendar,
                 mergeVars, focusVars, renderVars, fetchVars, installVars,
                 setupVars>>

\* fetchCalendarEvents: if (!config.calendar?.enabled) return []
FetchCalendarEventsDisabled ==
  /\ pc = "google"
  /\ dashCalendar = <<>>
  /\ ~Truthy(At(config, <<"calendar", "enabled">>))
  /\ dashCalendar' = <<"return">>
  /\ UNCHANGED <<pc, configVars, proxyEmails, proxyCalendar, dashEmails,
                 mergeVars, focusVars, renderVars, fetchVars, installVars,
                 setupVars>>

\* fetchCalendarEvents: gog calendar events ${config.calendar.id}
FetchCalendarEvents ==
  /\ pc = "google"
  /\ dashCalendar = <<>>
  /\ Truthy(At(config, <<"calendar", "enabled">>))
  /\ dashCalendar' = <<"gog", InTemplate(At(config, <<"calendar", "id">>))>>
  /\ UNCHANGED <<pc, configVars, proxyEmails, proxyCalendar, dashEmails,
                 mergeVars, focusVars, renderVars, fetchVars, installVars,
                 setupVars>>

NextProxy ==
  \/ ProxyGetEmails
  \/ ProxyGetCalendar
  \/ FetchEmailsDisabled
  \/ FetchEmails
  \/ FetchCalendarEventsDisabled
  \/ FetchCalendarEvents

SpecProxy == InitProxy /\ [][NextProxy]_vars

\* C28 as stated: once the proxy and the dashboard have both issued their
\* gog command for the same config file, the search query, the --max value
\* and the calendar id in the two commands are the same.
C28_SameResolution ==
  /\ (proxyEmails # <<>> /\ Len(dashEmails) = 3) => proxyEmails = dashEmails
  /\ (proxyCalendar # <<>> /\ Len(dashCalendar) = 2) =>
       proxyCalendar = dashCalendar

\* The file sets only gmail.maxEmails: the proxy searches for 'undefined',
\* the dashboard for the default query.
C28_PartialGmailSection ==
  /\ files["CONFIG_PATH"] = Parsed(Obj([gmail |-> Obj([maxEmails |-> Num(5)])]))
  /\ proxyEmails = <<"gog", <<"u", "n", "d", "e", "f", "i", "n", "e", "d">>,
                     <<"5">>>>
  /\ dashEmails = <<"gog", DEFAULT_CONFIG.o.gmail.o.query.c, <<"5">>>>

====
